---- MODULE Spec2Model ----
(***************************************************************************)
(* Model of the question pipeline of "Cien años de soledad":               *)
(*   src/nlpProcessor.js      text helpers, detectarExistencia,            *)
(*                            buscarEventoSimilar, analizarPregunta        *)
(*   src/routes/preguntas.js  GET /api/preguntas (the query planner)       *)
(*   src/routes/*.js          POST/PUT handlers that change the store      *)
(*                                                                         *)
(* A JavaScript string is a sequence of characters; a character is a       *)
(* one-symbol TLA+ string.  The combining acute accent U+0301 is the       *)
(* character written "U+0301".                                             *)
(***************************************************************************)
EXTENDS Integers, Sequences, FiniteSets, TLC

(***************************************************************************)
(* Characters                                                              *)
(***************************************************************************)
Mayusculas ==
  <<"A","B","C","D","E","F","G","H","I","J","K","L","M","N","O","P","Q","R",
    "S","T","U","V","W","X","Y","Z","Á","É","Í","Ó","Ú","Ñ">>

Minusculas ==
  <<"a","b","c","d","e","f","g","h","i","j","k","l","m","n","o","p","q","r",
    "s","t","u","v","w","x","y","z","á","é","í","ó","ú","ñ">>

\* Precomposed lower-case letters and the base letter NFD decomposes them to.
ConTilde == <<"á","é","í","ó","ú","ñ">>

SinTilde == <<"a","e","i","o","u","n">>

\* U+0300..U+036f, of which the model's alphabet holds the acute accent.
MarcasCombinantes == {"U+0301"}

Digitos == <<"0","1","2","3","4","5","6","7","8","9">>

\* \s of a JavaScript regular expression (the model's alphabet holds the space).
Espacios == {" "}

EsEspacio(c) == c \in Espacios

EsDigito(c) == \E i \in 1..Len(Digitos) : Digitos[i] = c

\* \w of a JavaScript regular expression: [A-Za-z0-9_].
EsPalabra(c) ==
  \/ \E i \in 1..26 : Mayusculas[i] = c \/ Minusculas[i] = c
  \/ EsDigito(c)
  \/ c = "_"

ValorDigito(c) == (CHOOSE i \in 1..Len(Digitos) : Digitos[i] = c) - 1

\* String.prototype.toLowerCase, one character.
MinusculaDe(c) ==
  IF \E i \in 1..Len(Mayusculas) : Mayusculas[i] = c
  THEN Minusculas[CHOOSE i \in 1..Len(Mayusculas) : Mayusculas[i] = c]
  ELSE c

\* normalize('NFD') followed by the removal of the combining marks, one
\* character: the base letter of a precomposed letter.
BaseDe(c) ==
  IF \E i \in 1..Len(ConTilde) : ConTilde[i] = c
  THEN SinTilde[CHOOSE i \in 1..Len(ConTilde) : ConTilde[i] = c]
  ELSE c

(***************************************************************************)
(* String helpers of the JavaScript runtime                                *)
(***************************************************************************)
toLowerCase(s) == [i \in 1..Len(s) |-> MinusculaDe(s[i])]

\* .normalize('NFD').replace(/[\u0300-\u036f]/g, '')
quitarMarcas(s) ==
  SelectSeq([i \in 1..Len(s) |-> BaseDe(s[i])],
            LAMBDA c : c \notin MarcasCombinantes)

\* Number of leading characters of s that are in the class.
Prefijo(s, clase) ==
  CHOOSE n \in 0..Len(s) :
    /\ \A i \in 1..n : s[i] \in clase
    /\ n = Len(s) \/ s[n + 1] \notin clase

\* Number of trailing characters of s that are in the class.
Sufijo(s, clase) ==
  CHOOSE n \in 0..Len(s) :
    /\ \A i \in (Len(s) - n + 1)..Len(s) : s[i] \in clase
    /\ n = Len(s) \/ s[Len(s) - n] \notin clase

QuitarIzq(s, clase) == SubSeq(s, Prefijo(s, clase) + 1, Len(s))

QuitarDer(s, clase) == SubSeq(s, 1, Len(s) - Sufijo(s, clase))

\* String.prototype.trim
trim(s) == QuitarDer(QuitarIzq(s, Espacios), Espacios)

\* s.startsWith(p, desde - 1): p occurs in s at position desde.
EmpiezaEn(s, desde, p) ==
  /\ desde + Len(p) - 1 <= Len(s)
  /\ SubSeq(s, desde, desde + Len(p) - 1) = p

\* String.prototype.includes
includes(s, sub) == \E i \in 1..(Len(s) - Len(sub) + 1) : EmpiezaEn(s, i, sub)

\* String.prototype.split(/\s+/): the pieces between maximal runs of
\* whitespace; a leading or trailing run leaves an empty piece.
RECURSIVE SplitDesde(_, _, _)
SplitDesde(s, i, actual) ==
  IF i > Len(s) THEN <<actual>>
  ELSE IF EsEspacio(s[i])
       THEN <<actual>> \o
            SplitDesde(s, i + Prefijo(SubSeq(s, i, Len(s)), Espacios), <<>>)
       ELSE SplitDesde(s, i + 1, Append(actual, s[i]))

split(s) == SplitDesde(s, 1, <<>>)

\* parseInt of a run of decimal digits.
RECURSIVE parseInt(_)
parseInt(d) ==
  IF Len(d) = 0 THEN 0
  ELSE 10 * parseInt(SubSeq(d, 1, Len(d) - 1)) + ValorDigito(d[Len(d)])

\* The values null and undefined of a string-valued expression.
Nulo == <<"null">>

Indefinido == <<"undefined">>

(***************************************************************************)
(* src/nlpProcessor.js: limpiarTexto                                       *)
(***************************************************************************)
\* The replacement without the g flag: only the first mark of the text is
\* removed.
limpiarTextoPrimeraMarca(str) ==
  LET t == toLowerCase(str)
      conMarca == {k \in 1..Len(t) : BaseDe(t[k]) # t[k] \/ t[k] \in MarcasCombinantes}
  IN IF conMarca = {} THEN t
     ELSE LET k == CHOOSE k1 \in conMarca : \A j \in conMarca : k1 <= j
          IN SubSeq(t, 1, k - 1) \o quitarMarcas(<<t[k]>>) \o SubSeq(t, k + 1, Len(t))

limpiarTexto(str) == quitarMarcas(toLowerCase(str))

(***************************************************************************)
(* src/nlpProcessor.js: detectarExistencia                                 *)
(***************************************************************************)
SignosPregunta == {"¿", "?"}

PuntuacionFinal == {"?", ".", "!"}

\* patrones with each short template ahead of its "alguna" form.
patronesCortosPrimero ==
  << [antes |-> <<"h","u","b","o">>, conN |-> FALSE, despues |-> <<>>],
     [antes |-> <<"h","u","b","o"," ","a","l","g","u","n","a">>, conN |-> FALSE, despues |-> <<>>],
     [antes |-> <<"e","x","i","s","t","e">>, conN |-> TRUE, despues |-> <<>>],
     [antes |-> <<"e","x","i","s","t","e">>, conN |-> TRUE, despues |-> <<" ","a","l","g","u","n","a">>],
     [antes |-> <<"e","x","i","s","t","i","ó">>, conN |-> FALSE, despues |-> <<>>],
     [antes |-> <<"h","a","y">>, conN |-> FALSE, despues |-> <<>>],
     [antes |-> <<"h","a","y"," ","a","l","g","u","n","a">>, conN |-> FALSE, despues |-> <<>>] >>

\* The seven templates, in the order of the array `patrones`.  Each is
\*   ^ antes (n)? despues \s+ (.+) $
\* where the group (n)? is present only when conN holds.
patrones ==
  << [antes |-> <<"h","u","b","o"," ","a","l","g","u","n","a">>, conN |-> FALSE, despues |-> <<>>],
     [antes |-> <<"h","u","b","o">>,        conN |-> FALSE, despues |-> <<>>],
     [antes |-> <<"e","x","i","s","t","e">>,      conN |-> TRUE,  despues |-> <<" ","a","l","g","u","n","a">>],
     [antes |-> <<"e","x","i","s","t","e">>,      conN |-> TRUE,  despues |-> <<>>],
     [antes |-> <<"e","x","i","s","t","i","ó">>,     conN |-> FALSE, despues |-> <<>>],
     [antes |-> <<"h","a","y"," ","a","l","g","u","n","a">>,  conN |-> FALSE, despues |-> <<>>],
     [antes |-> <<"h","a","y">>,         conN |-> FALSE, despues |-> <<>> ] >>

\* despues \s+ (.+) $ tried at position desde of s: the captured text, or
\* Indefinido when it does not match.  \s+ is greedy and gives back one
\* character when it would leave nothing for (.+).
ColaPatron(s, desde, despues) ==
  LET p == desde + Len(despues)
      blancos == Prefijo(SubSeq(s, p, Len(s)), Espacios)
  IN IF ~EmpiezaEn(s, desde, despues) \/ blancos = 0 THEN Indefinido
     ELSE IF p + blancos <= Len(s) THEN SubSeq(s, p + blancos, Len(s))
     ELSE IF blancos >= 2 THEN SubSeq(s, Len(s), Len(s))
     ELSE Indefinido

\* s.match(pat): [ok, g1, g2], g1 and g2 the first and second capture group
\* of the template (Indefinido for a group that took part in no match).
\* The templates without (n)? have one group, the term.
matchPatron(s, pat) ==
  LET d == Len(pat.antes) + 1
      conLaN == IF pat.conN /\ EmpiezaEn(s, d, <<"n">>)
                THEN ColaPatron(s, d + 1, pat.despues) ELSE Indefinido
      sinLaN == ColaPatron(s, d, pat.despues)
  IN IF ~EmpiezaEn(s, 1, pat.antes)
     THEN [ok |-> FALSE, g1 |-> Indefinido, g2 |-> Indefinido]
     ELSE IF ~pat.conN
     THEN [ok |-> sinLaN # Indefinido, g1 |-> sinLaN, g2 |-> Indefinido]
     ELSE IF conLaN # Indefinido
     THEN [ok |-> TRUE, g1 |-> <<"n">>, g2 |-> conLaN]
     ELSE [ok |-> sinLaN # Indefinido, g1 |-> Indefinido, g2 |-> sinLaN]

\* txt.replace(/^[¿?]+|[¿?]+$/g, '').trim()
sinSignosDe(textoOriginal) ==
  trim(QuitarDer(QuitarIzq(trim(toLowerCase(textoOriginal)), SignosPregunta),
                 SignosPregunta))

\* m[1] || m[2]
terminoDe(m) == IF m.g1 # Indefinido /\ m.g1 # <<>> THEN m.g1 ELSE m.g2

\* The body of `if (termino) { ... }`: trim, strip the trailing [?.!]+, trim,
\* fold.
limpiarTermino(termino) ==
  limpiarTexto(trim(QuitarDer(trim(termino), PuntuacionFinal)))

\* The loop over `patrones` from template k on: the first template that
\* matches with a truthy m[1] || m[2] returns; null after the last one.
RECURSIVE detectarDesde(_, _)
detectarDesde(sinSignos, k) ==
  IF k > Len(patrones) THEN Nulo
  ELSE LET m == matchPatron(sinSignos, patrones[k])
       IN IF m.ok /\ terminoDe(m) # Indefinido /\ terminoDe(m) # <<>>
          THEN limpiarTermino(terminoDe(m))
          ELSE detectarDesde(sinSignos, k + 1)

detectarExistencia(textoOriginal) == detectarDesde(sinSignosDe(textoOriginal), 1)

(***************************************************************************)
(* /cap[ií]tulo\s*(\d+)/i, src/routes/preguntas.js:55 and                  *)
(* src/nlpProcessor.js:230                                                 *)
(***************************************************************************)
\* The digits captured by an attempt of the expression at position i of s,
\* <<>> when the attempt fails.
CapituloEn(s, i) ==
  LET bajo == toLowerCase(s)
      j == i + 8
      blancos == Prefijo(SubSeq(s, j, Len(s)), Espacios)
      resto == SubSeq(s, j + blancos, Len(s))
  IN IF /\ EmpiezaEn(bajo, i, <<"c","a","p">>)
        /\ i + 3 <= Len(s) /\ bajo[i + 3] \in {"i", "í"}
        /\ EmpiezaEn(bajo, i + 4, <<"t","u","l","o">>)
     THEN SubSeq(resto, 1, Prefijo(resto, {Digitos[d] : d \in 1..Len(Digitos)}))
     ELSE <<>>

\* s.match(...): the first capture group of the leftmost match, or Nulo.
matchCapitulo(s) ==
  IF \E i \in 1..Len(s) : CapituloEn(s, i) # <<>>
  THEN CapituloEn(s, CHOOSE i \in 1..Len(s) :
                       /\ CapituloEn(s, i) # <<>>
                       /\ \A k \in 1..(i - 1) : CapituloEn(s, k) = <<>>)
  ELSE Nulo

(***************************************************************************)
(* src/nlpProcessor.js: verbosClave, the entries of Object.entries in      *)
(* insertion order (a key written twice keeps its first place and its last *)
(* value).                                                                 *)
(***************************************************************************)
verbosClave ==
  <<
    [clave |-> "morir", formas |-> <<
      <<"m","o","r","i","r">>,
      <<"m","u","r","i","ó">>,
      <<"f","a","l","l","e","c","i","ó">>,
      <<"p","e","r","e","c","i","ó">>,
      <<"e","x","p","i","r","ó">>,
      <<"d","e","j","ó"," ","d","e"," ","e","x","i","s","t","i","r">>,
      <<"t","r","a","s","c","e","n","d","i","ó">>,
      <<"s","e"," ","m","u","r","i","ó">> >>],
    [clave |-> "fundar", formas |-> <<
      <<"f","u","n","d","a","r">>,
      <<"f","u","n","d","ó">>,
      <<"c","r","e","a","r">>,
      <<"c","r","e","ó">>,
      <<"e","s","t","a","b","l","e","c","e","r">>,
      <<"e","s","t","a","b","l","e","c","i","ó">>,
      <<"e","r","i","g","i","r">>,
      <<"c","o","n","s","t","r","u","y","ó">>,
      <<"f","o","r","m","ó">> >>],
    [clave |-> "nacer", formas |-> <<
      <<"n","a","c","e","r">>,
      <<"n","a","c","i","ó">>,
      <<"n","a","c","i","d","o">>,
      <<"n","a","c","i","m","i","e","n","t","o">>,
      <<"n","a","c","i","e","r","o","n">>,
      <<"v","i","n","o"," ","a","l"," ","m","u","n","d","o">>,
      <<"n","a","c","e">>,
      <<"a","l","u","m","b","r","a","m","i","e","n","t","o">> >>],
    [clave |-> "casar", formas |-> <<
      <<"c","a","s","a","r","s","e">>,
      <<"s","e"," ","c","a","s","ó">>,
      <<"c","o","n","t","r","a","j","o"," ","m","a","t","r","i","m","o","n","i","o">>,
      <<"c","o","n","t","r","a","j","o"," ","n","u","p","c","i","a","s">>,
      <<"m","a","t","r","i","m","o","n","i","o">>,
      <<"b","o","d","a">>,
      <<"s","e"," ","u","n","i","ó">>,
      <<"s","e"," ","d","e","s","p","o","s","ó">>,
      <<"d","e","s","p","o","s","ó">>,
      <<"c","e","l","e","b","r","ó"," ","s","u"," ","b","o","d","a">> >>],
    [clave |-> "desaparecer", formas |-> <<
      <<"d","e","s","a","p","a","r","e","c","e","r">>,
      <<"d","e","s","a","p","a","r","e","c","i","ó">>,
      <<"s","e"," ","d","e","s","v","a","n","e","c","i","ó">>,
      <<"s","e"," ","p","e","r","d","i","ó">>,
      <<"s","e"," ","e","s","f","u","m","ó">> >>],
    [clave |-> "envejecer", formas |-> <<
      <<"e","n","v","e","j","e","c","e","r">>,
      <<"e","n","v","e","j","e","c","i","ó">>,
      <<"s","e"," ","v","o","l","v","i","ó"," ","v","i","e","j","o">>,
      <<"s","e"," ","h","i","z","o"," ","m","a","y","o","r">>,
      <<"e","n","v","e","j","e","c","e">> >>],
    [clave |-> "amar", formas |-> <<
      <<"a","m","a","r">>,
      <<"s","e"," ","e","n","a","m","o","r","ó">>,
      <<"a","m","o","r">>,
      <<"a","m","ó">>,
      <<"a","d","o","r","ó">>,
      <<"q","u","e","r","e","r">>,
      <<"s","e"," ","q","u","i","s","o">> >>],
    [clave |-> "partir", formas |-> <<
      <<"p","a","r","t","i","r">>,
      <<"s","a","l","i","ó">>,
      <<"s","e"," ","f","u","e">>,
      <<"a","b","a","n","d","o","n","ó">>,
      <<"m","a","r","c","h","ó">>,
      <<"h","u","y","ó">>,
      <<"e","m","i","g","r","ó">> >>],
    [clave |-> "regresar", formas |-> <<
      <<"r","e","g","r","e","s","a","r">>,
      <<"v","o","l","v","i","ó">>,
      <<"r","e","t","o","r","n","ó">>,
      <<"r","e","a","p","a","r","e","c","i","ó">>,
      <<"r","e","g","r","e","s","ó">>,
      <<"v","o","l","v","i","e","r","o","n">> >>],
    [clave |-> "escribir", formas |-> <<
      <<"e","s","c","r","i","b","i","r">>,
      <<"e","s","c","r","i","b","i","ó">>,
      <<"r","e","d","a","c","t","ó">>,
      <<"d","o","c","u","m","e","n","t","ó">>,
      <<"a","n","o","t","ó">>,
      <<"r","e","g","i","s","t","r","ó">> >>],
    [clave |-> "revelar", formas |-> <<
      <<"r","e","v","e","l","a","r">>,
      <<"c","o","n","t","ó">>,
      <<"c","o","n","f","e","s","ó">>,
      <<"d","e","s","c","u","b","r","i","ó">>,
      <<"a","d","m","i","t","i","ó">>,
      <<"e","x","p","l","i","c","ó">> >>],
    [clave |-> "asesinar", formas |-> <<
      <<"m","a","t","a","r">>,
      <<"a","s","e","s","i","n","a","r">>,
      <<"f","u","e"," ","a","s","e","s","i","n","a","d","o">>,
      <<"e","j","e","c","u","t","a","r">>,
      <<"a","j","u","s","t","i","c","i","ó">>,
      <<"e","l","i","m","i","n","ó">> >>],
    [clave |-> "leer", formas |-> <<
      <<"l","e","e","r">>,
      <<"l","e","y","ó">>,
      <<"c","o","n","s","u","l","t","ó">>,
      <<"r","e","v","i","s","ó">>,
      <<"e","s","t","u","d","i","ó">> >>],
    [clave |-> "profetizar", formas |-> <<
      <<"p","r","o","f","e","t","i","z","a","r">>,
      <<"p","r","o","f","e","t","i","z","ó">>,
      <<"p","r","e","d","i","j","o">>,
      <<"a","d","i","v","i","n","ó">>,
      <<"v","a","t","i","c","i","n","ó">> >>],
    [clave |-> "imponer", formas |-> <<
      <<"i","m","p","o","n","e","r">>,
      <<"i","m","p","u","s","o">>,
      <<"d","o","m","i","n","ó">>,
      <<"t","r","a","j","o"," ","d","i","s","c","i","p","l","i","n","a">>,
      <<"o","r","d","e","n","ó">>,
      <<"e","s","t","a","b","l","e","c","i","ó"," ","n","o","r","m","a","s">> >>],
    [clave |-> "enriquecer", formas |-> <<
      <<"r","i","q","u","e","z","a">>,
      <<"h","a","c","e","r","s","e"," ","r","i","c","o">>,
      <<"v","o","l","v","e","r","s","e"," ","r","i","c","o">>,
      <<"o","b","t","e","n","e","r"," ","r","i","q","u","e","z","a">>,
      <<"r","i","c","o">>,
      <<"s","e","r"," ","r","i","c","o">>,
      <<"v","o","l","v","i","ó"," ","r","i","c","o">>,
      <<"h","i","z","o"," ","r","i","c","o">>,
      <<"e","n","r","i","q","u","e","c","e","r">>,
      <<"e","n","r","i","q","u","e","c","e","r","s","e">>,
      <<"e","n","r","i","q","u","e","c","i","ó">>,
      <<"e","n","r","i","q","u","e","c","i","d","o">> >>],
    [clave |-> "perder", formas |-> <<
      <<"p","e","r","d","e","r">>,
      <<"p","e","r","d","i","ó">>,
      <<"d","e","r","r","o","t","a">>,
      <<"f","r","a","c","a","s","ó">>,
      <<"f","u","e"," ","v","e","n","c","i","d","o">>,
      <<"c","a","y","ó">> >>],
    [clave |-> "crecer", formas |-> <<
      <<"c","r","e","c","e","r">>,
      <<"c","r","e","c","i","ó">>,
      <<"c","r","e","c","e">>,
      <<"c","r","e","c","i","d","o">>,
      <<"c","r","e","c","i","m","i","e","n","t","o">>,
      <<"c","r","e","c","i","e","r","o","n">>,
      <<"e","x","p","a","n","s","i","ó","n">>,
      <<"d","e","s","a","r","r","o","l","l","o">> >>],
    [clave |-> "huir", formas |-> <<
      <<"h","u","i","r">>,
      <<"h","u","y","ó">>,
      <<"e","s","c","a","p","ó">>,
      <<"f","u","g","ó">>,
      <<"s","e"," ","e","s","c","a","p","ó">>,
      <<"s","e"," ","f","u","g","ó">> >>],
    [clave |-> "construir", formas |-> <<
      <<"c","o","n","s","t","r","u","i","r">>,
      <<"c","o","n","s","t","r","u","y","ó">>,
      <<"e","d","i","f","i","c","ó">>,
      <<"l","e","v","a","n","t","ó">>,
      <<"e","d","i","f","i","c","a","r","o","n">> >>],
    [clave |-> "destruir", formas |-> <<
      <<"d","e","s","t","r","u","i","r">>,
      <<"d","e","s","t","r","u","y","ó">>,
      <<"a","r","r","a","s","ó">>,
      <<"d","e","r","r","i","b","ó">>,
      <<"s","e"," ","v","i","n","o"," ","a","b","a","j","o">> >>],
    [clave |-> "cambiar", formas |-> <<
      <<"c","a","m","b","i","a","r">>,
      <<"c","a","m","b","i","o">>,
      <<"c","a","m","b","i","ó">>,
      <<"m","o","d","i","f","i","c","a","r">>,
      <<"t","r","a","n","s","f","o","r","m","a","r">>,
      <<"m","o","d","i","f","i","c","ó">>,
      <<"t","r","a","n","s","f","o","r","m","ó">>,
      <<"f","u","e"," ","m","o","d","i","f","i","c","a","d","o">>,
      <<"v","a","r","i","a","r">>,
      <<"v","a","r","i","a","c","i","ó","n">>,
      <<"s","e"," ","t","r","a","n","s","f","o","r","m","ó">> >>],
    [clave |-> "sufrir", formas |-> <<
      <<"s","u","f","r","i","r">>,
      <<"s","u","f","r","i","ó">>,
      <<"p","a","d","e","c","i","ó">>,
      <<"d","o","l","o","r">>,
      <<"p","e","n","ó">>,
      <<"a","f","l","i","g","i","ó">> >>],
    [clave |-> "ganar", formas |-> <<
      <<"g","a","n","a","r">>,
      <<"g","a","n","ó">>,
      <<"o","b","t","u","v","o">>,
      <<"v","e","n","c","i","ó">>,
      <<"t","r","i","u","n","f","ó">>,
      <<"l","o","g","r","ó">> >>],
    [clave |-> "aparecer", formas |-> <<
      <<"a","p","a","r","e","c","e","r">>,
      <<"a","p","a","r","e","c","i","ó">>,
      <<"s","u","r","g","i","ó">>,
      <<"s","e"," ","p","r","e","s","e","n","t","ó">>,
      <<"e","m","e","r","g","i","ó">> >>],
    [clave |-> "visitar", formas |-> <<
      <<"v","i","s","i","t","a","r">>,
      <<"v","i","s","i","t","ó">>,
      <<"v","i","n","o"," ","a"," ","v","e","r">>,
      <<"l","l","e","g","ó"," ","a"," ","v","e","r">>,
      <<"s","e"," ","a","p","a","r","e","c","i","ó">> >>],
    [clave |-> "recordar", formas |-> <<
      <<"r","e","c","o","r","d","a","r">>,
      <<"r","e","c","o","r","d","ó">>,
      <<"m","e","m","o","r","i","a">>,
      <<"r","e","m","e","m","o","r","ó">>,
      <<"e","v","o","c","ó">> >>],
    [clave |-> "olvidar", formas |-> <<
      <<"o","l","v","i","d","a","r">>,
      <<"o","l","v","i","d","ó">>,
      <<"s","e"," ","l","e"," ","o","l","v","i","d","ó">>,
      <<"l","o"," ","p","e","r","d","i","ó"," ","d","e"," ","m","e","n","t","e">>,
      <<"o","m","i","t","i","ó">> >>],
    [clave |-> "confesar", formas |-> <<
      <<"c","o","n","f","e","s","a","r">>,
      <<"c","o","n","f","e","s","ó">>,
      <<"a","d","m","i","t","i","ó">>,
      <<"r","e","v","e","l","ó">>,
      <<"d","e","c","l","a","r","ó">> >>],
    [clave |-> "ver", formas |-> <<
      <<"v","e","r">>,
      <<"v","i","o">>,
      <<"o","b","s","e","r","v","ó">>,
      <<"m","i","r","ó">>,
      <<"c","o","n","t","e","m","p","l","ó">>,
      <<"p","r","e","s","e","n","c","i","ó">> >>],
    [clave |-> "oír", formas |-> <<
      <<"o","í","r">>,
      <<"o","y","ó">>,
      <<"e","s","c","u","c","h","ó">>,
      <<"p","e","r","c","i","b","i","ó">>,
      <<"a","t","e","n","d","i","ó">> >>],
    [clave |-> "poseer", formas |-> <<
      <<"p","o","s","e","e","r">>,
      <<"t","u","v","o">>,
      <<"t","e","n","í","a">>,
      <<"e","r","a"," ","d","u","e","ñ","o"," ","d","e">>,
      <<"o","b","t","u","v","o">>,
      <<"p","o","s","e","y","ó">> >>],
    [clave |-> "entregar", formas |-> <<
      <<"e","n","t","r","e","g","a","r">>,
      <<"e","n","t","r","e","g","ó">>,
      <<"c","e","d","i","ó">>,
      <<"d","i","o">>,
      <<"r","e","g","a","l","ó">> >>],
    [clave |-> "recibir", formas |-> <<
      <<"r","e","c","i","b","i","r">>,
      <<"r","e","c","i","b","i","ó">>,
      <<"o","b","t","u","v","o">>,
      <<"a","c","e","p","t","ó">>,
      <<"f","u","e"," ","d","a","d","o">> >>],
    [clave |-> "haber", formas |-> <<
      <<"h","a","b","e","r">>,
      <<"h","u","b","o">>,
      <<"h","a","y">>,
      <<"e","x","i","s","t","i","ó">>,
      <<"e","x","i","s","t","í","a">>,
      <<"e","x","i","s","t","i","e","r","o","n">>,
      <<"o","c","u","r","r","i","ó">>,
      <<"a","c","o","n","t","e","c","i","ó">> >>],
    [clave |-> "tener", formas |-> <<
      <<"t","e","n","e","r">>,
      <<"t","e","n","í","a">>,
      <<"t","u","v","o">>,
      <<"h","a","n"," ","t","e","n","i","d","o">>,
      <<"h","u","b","o">>,
      <<"p","o","s","e","í","a">>,
      <<"c","o","n","t","a","b","a"," ","c","o","n">>,
      <<"m","a","n","t","u","v","o">>,
      <<"d","i","s","p","o","n","í","a"," ","d","e">> >>],
    [clave |-> "comerciar", formas |-> <<
      <<"c","o","m","e","r","c","i","a","r">>,
      <<"c","o","m","e","r","c","i","ó">>,
      <<"v","e","n","d","i","ó">>,
      <<"i","n","t","e","r","c","a","m","b","i","ó">>,
      <<"n","e","g","o","c","i","ó">>,
      <<"t","r","a","n","s","ó">>,
      <<"t","r","u","e","q","u","e","ó">>,
      <<"t","r","a","f","i","c","ó">>,
      <<"h","i","z","o"," ","n","e","g","o","c","i","o","s">> >>],
    [clave |-> "existir", formas |-> <<
      <<"e","x","i","s","t","i","r">>,
      <<"e","x","i","s","t","í","a">>,
      <<"e","x","i","s","t","i","ó">>,
      <<"h","u","b","o">>,
      <<"h","a","y">>,
      <<"s","e"," ","e","n","c","o","n","t","r","a","b","a">>,
      <<"s","e"," ","h","a","l","l","a","b","a">>,
      <<"e","s","t","a","b","a"," ","p","r","e","s","e","n","t","e">>,
      <<"p","e","r","m","a","n","e","c","í","a">>,
      <<"s","u","b","s","i","s","t","í","a">> >>] >>

(***************************************************************************)
(* src/nlpProcessor.js: escapeRegex, matchFlexible, normalizar,            *)
(* extraerAlias, the verb scan of analizarPregunta                         *)
(***************************************************************************)
\* new RegExp(`\\b${escapeRegex(forma)}\\b`, 'i').test(texto): forma occurs
\* in texto, letter case ignored, with a word boundary on both sides.  A
\* boundary lies between a \w character and a non-\w character or an end of
\* the text.
HayLimite(t, i) ==
  LET antes == i > 1 /\ EsPalabra(t[i - 1])
      despues == i <= Len(t) /\ EsPalabra(t[i])
  IN antes # despues

testPalabra(forma, texto) ==
  LET t == toLowerCase(texto)
      f == toLowerCase(forma)
  IN \E i \in 1..(Len(t) - Len(f) + 1) :
       /\ EmpiezaEn(t, i, f)
       /\ HayLimite(t, i)
       /\ HayLimite(t, i + Len(f))

matchFlexible(entidadNormal, textoNormal) ==
  IF entidadNormal = <<>> \/ entidadNormal = Nulo \/ textoNormal = <<>>
  THEN FALSE
  ELSE \/ includes(textoNormal, entidadNormal)
       \/ \E k \in 1..Len(split(entidadNormal)) :
            includes(textoNormal, split(entidadNormal)[k])

\* The characters the punctuation step of the text library drops.
SignosNlp == {",", ";", ".", "?", "!", "¿", "¡"}

\* Runs of whitespace collapsed to one space.
RECURSIVE unirPalabras(_)
unirPalabras(palabras) ==
  IF Len(palabras) = 0 THEN <<>>
  ELSE IF Len(palabras) = 1 THEN palabras[1]
  ELSE palabras[1] \o <<" ">> \o unirPalabras(Tail(palabras))

\* nlp(texto).normalize({ punctuation: true, plurals: true }).out('text'):
\* punctuation marks dropped, whitespace collapsed and trimmed.
nlpNormalize(texto) ==
  unirPalabras(SelectSeq(split(SelectSeq(texto, LAMBDA c : c \notin SignosNlp)),
                         LAMBDA w : w # <<>>))

normalizar(texto) == limpiarTexto(nlpNormalize(texto))

\* Position of the first "(" of s that a ")" follows, 0 when there is none.
PrimerParentesis(s) ==
  IF \E a \in 1..Len(s) : s[a] = "(" /\ \E b \in (a + 1)..Len(s) : s[b] = ")"
  THEN CHOOSE a \in 1..Len(s) :
         /\ s[a] = "(" /\ \E b \in (a + 1)..Len(s) : s[b] = ")"
         /\ \A k \in 1..(a - 1) : s[k] # "("
  ELSE 0

\* Position of the first ")" of s after position a.
CierreDe(s, a) ==
  CHOOSE b \in (a + 1)..Len(s) :
    s[b] = ")" /\ \A k \in (a + 1)..(b - 1) : s[k] # ")"

\* nombreCompleto.replace(/\s*\(.*?\)\s*/g, '')
RECURSIVE quitarParentesis(_)
quitarParentesis(s) ==
  LET a == PrimerParentesis(s)
      b == CierreDe(s, a)
      izq == SubSeq(s, 1, a - 1)
      der == SubSeq(s, b + 1, Len(s))
  IN IF a = 0 THEN s
     ELSE QuitarDer(izq, Espacios) \o quitarParentesis(QuitarIzq(der, Espacios))

\* extraerAlias without the trim of the name.
extraerAliasSinRecortar(nombreCompleto) ==
  LET a == PrimerParentesis(nombreCompleto)
  IN [nombre |-> limpiarTexto(quitarParentesis(nombreCompleto)),
      alias |-> IF a = 0 THEN Nulo
                ELSE limpiarTexto(SubSeq(nombreCompleto, a + 1,
                                         CierreDe(nombreCompleto, a) - 1)),
      original |-> nombreCompleto]

extraerAlias(nombreCompleto) ==
  LET a == PrimerParentesis(nombreCompleto)
  IN [nombre |-> trim(limpiarTexto(quitarParentesis(nombreCompleto))),
      alias |-> IF a = 0 THEN Nulo
                ELSE limpiarTexto(SubSeq(nombreCompleto, a + 1,
                                         CierreDe(nombreCompleto, a) - 1)),
      original |-> nombreCompleto]

\* intencionPresente looking at the first form of the intent only.
intencionPresenteSoloPrimera(formas, textoRawNorm) ==
  testPalabra(limpiarTexto(formas[1]), textoRawNorm)

\* The inner loop of step 7 for one intent: does one of its folded forms
\* occur as a word of the folded question?
intencionPresente(formas, textoRawNorm) ==
  \E k \in 1..Len(formas) : testPalabra(limpiarTexto(formas[k]), textoRawNorm)

\* Step 7 from the k-th intent on: the sources (without the \b marks) of the
\* expressions pushed to regexVerbos, in order.
RECURSIVE verbosDesde(_, _)
verbosDesde(textoRawNorm, k) ==
  IF k > Len(verbosClave) THEN <<>>
  ELSE (IF intencionPresente(verbosClave[k].formas, textoRawNorm)
        THEN [i \in 1..Len(verbosClave[k].formas) |->
                limpiarTexto(verbosClave[k].formas[i])]
        ELSE <<>>) \o verbosDesde(textoRawNorm, k + 1)

detectarVerbos(pregunta) == verbosDesde(limpiarTexto(pregunta), 1)

(***************************************************************************)
(* The store.  A collection is the sequence of its documents in insertion  *)
(* order and the _id of a document is its position; no handler deletes.    *)
(*   personaje  [nombre]                                                   *)
(*   lugar      [nombre]                                                   *)
(*   objeto     [nombre, evento_relacionado]                               *)
(*   evento     [nombre, descripcion, personajes_involucrados,             *)
(*               lugar_relacionado]                                        *)
(*   capitulo   [numero, eventos]                                          *)
(* SinRef is an absent reference, Indefinido an absent descripcion.        *)
(***************************************************************************)
SinRef == 0

Ids(coleccion) == 1..Len(coleccion)

(***************************************************************************)
(* Inputs: the values of req.query.q, the store the server starts on and   *)
(* the values the POST/PUT requests carry                                  *)
(***************************************************************************)
Preguntas ==
  { <<>>,
    <<" "," ">>,
    <<"c","a","p","í","t","u","l","o"," ","1">>,
    <<"C","A","P","Í","T","U","L","O"," ","2">>,
    <<"c","a","p","í","t","u","l","o"," ","3">>,
    <<"h","u","b","o"," ","g","u","e","r","r","a"," ","e","n"," ","e","l"," ","c","a","p","í","t","u","l","o"," ","1">>,
    <<"l","a"," ","p","e","s","t","e"," ","d","e","l"," ","c","a","p","i","t","u","l","o"," ","7">>,
    <<"c","a","p","i","U+0301","t","u","l","o"," ","1">>,
    <<"c","a","p","i","U+0301","t","u","l","o"," ","7">>,
    <<"¿","H","u","b","o"," ","a","l","g","u","n","a"," ","g","u","e","r","r","a"," ","c","i","v","i","l","?">>,
    <<"h","u","b","o"," "," ","a","l","g","u","n","a"," ","p","e","s","t","e">>,
    <<"¿","H","a","y"," ","a","l","g","u","n","a"," ","p","e","s","t","e","?">>,
    <<"h","a","y"," ","p","e","s","t","e">>,
    <<"h","a","y"," ","p","e","s","t","e"," ","i","n","s","o","m","n","i","o">>,
    <<"E","x","i","s","t","e"," ","a","l","g","u","n","a"," ","G","u","e","r","r","a",".">>,
    <<"e","x","i","s","t","e","n"," ","g","u","e","r","r","a","s">>,
    <<"e","x","i","s","t","e","n"," ","a","l","g","u","n","a"," ","g","u","e","r","r","a","s">>,
    <<"¿","E","x","i","s","t","i","ó"," ","Ú","r","s","u","l","a","?">>,
    <<"h","a","y"," ",".">>,
    <<"h","a","y"," ","¡">>,
    <<"¿","Q","u","é"," ","p","a","s","ó","?">>,
    <<"s","e"," ","m","u","r","i","ó">>,
    <<"l","a"," ","p","e","s","t","e">>,
    <<"Ú","r","s","u","l","a"," ","y"," ","l","a"," ","p","e","s","t","e">>,
    <<"Ú","r","s","u","l","a"," ","M","a","c","o","n","d","o"," ","e","s","p","e","j","o">>,
    <<"M","e","l","q","u","í","a","d","e","s"," ","M","a","c","o","n","d","o">>,
    <<"Ú","r","s","u","l","a"," ","M","a","c","o","n","d","o">>,
    <<"M","a","c","o","n","d","o">>,
    <<"¿","Q","u","i","é","n"," ","n","a","c","i","ó"," ","e","n"," ","M","a","c","o","n","d","o","?">>,
    <<"¿","Q","u","i","é","n"," ","m","u","r","i","ó"," ","e","n"," ","M","a","c","o","n","d","o","?">>,
    <<"¿","D","ó","n","d","e"," ","v","i","v","i","ó"," ","J","o","s","é"," ","A","r","c","a","d","i","o"," ","B","u","e","n","d","í","a","?">> }

\* req.query.q: a question, or Indefinido when the parameter is missing.
Consultas == Preguntas \cup {Indefinido}

\* Names stored with white space around them: the POST and PUT handlers
\* store the nombre of the body as it is sent.
NombresConEspacios ==
  { <<"Ú","r","s","u","l","a"," ">>, <<" ","M","a","c","o","n","d","o">> }

\* Questions asked of a store that is not written meanwhile.
PreguntasDeLectura ==
  { <<"g","i","t","a","n","o">>,
    <<"U+0301">>,
    <<"G","u","e","r","r","a",","," ","c","i","v","i","l">>,
    <<"H","i","e","l","o">>,
    <<"c","a","p","i","U+0301","t","u","l","o"," ","0">>,
    <<"¿","Q","u","i","é","n"," ","f","a","l","l","e","c","i","ó","?">>,
    <<"¿","Q","u","i","é","n"," ","m","u","r","i","ó"," ","a","l","l","á"," ","e","n"," ","M","a","c","o","n","d","o","?">> }

ConsultasDeLectura == Preguntas \cup PreguntasDeLectura

PersonajesIniciales ==
  << [nombre |-> <<"Ú","r","s","u","l","a">>],
     [nombre |-> <<"M","e","l","q","u","í","a","d","e","s"," ","(","e","l"," ","g","i","t","a","n","o",")">>],
     [nombre |-> <<"J","o","s","é"," ","A","r","c","a","d","i","o"," ","B","u","e","n","d","í","a">>] >>

LugaresIniciales == << [nombre |-> <<"M","a","c","o","n","d","o">>] >>

ObjetosIniciales == << [nombre |-> <<"E","s","p","e","j","o">>, evento_relacionado |-> 3] >>

EventosIniciales ==
  << [nombre |-> <<"L","a"," ","p","e","s","t","e">>, descripcion |-> <<"I","n","s","o","m","n","i","o">>,
      personajes_involucrados |-> {1}, lugar_relacionado |-> SinRef],
     [nombre |-> <<"G","u","e","r","r","a",","," ","c","i","v","i","l">>, descripcion |-> Indefinido,
      personajes_involucrados |-> {}, lugar_relacionado |-> 1],
     [nombre |-> <<"H","i","e","l","o">>, descripcion |-> <<"M","u","r","i","ó"," ","Ú","r","s","u","l","a",","," ","s","o","l","a">>,
      personajes_involucrados |-> {}, lugar_relacionado |-> SinRef],
     [nombre |-> <<"N","a","c","i","m","i","e","n","t","o">>, descripcion |-> <<"J","o","s","é"," ","A","r","c","a","d","i","o"," ","B","u","e","n","d","í","a",","," ","f","u","n","d","a","d","o","r">>,
      personajes_involucrados |-> {3}, lugar_relacionado |-> SinRef] >>

CapitulosIniciales ==
  << [numero |-> 2, eventos |-> {}],
     [numero |-> 1, eventos |-> {1, 2}] >>

\* The nombre a POST or PUT body carries.
NombresNuevos == { <<"R","e","m","e","d","i","o","s">> }

\* Values of evento_relacionado a client sends: an event of the seed store
\* and an _id no event of the seed store has.
RefsEvento == {2, 5}

Campo(coleccion, campo) == {coleccion[i][campo] : i \in Ids(coleccion)}

\* Every nombre a character, place or object can have, every nombre and
\* every descripcion an event can have.
NombresEntidad ==
  Campo(PersonajesIniciales, "nombre") \cup Campo(LugaresIniciales, "nombre")
    \cup Campo(ObjetosIniciales, "nombre") \cup NombresNuevos
    \cup NombresConEspacios

NombresEvento == Campo(EventosIniciales, "nombre") \cup NombresNuevos

DescripcionesEvento == Campo(EventosIniciales, "descripcion") \cup {Indefinido}

(***************************************************************************)
(* The text functions are functions of their arguments alone; the tables   *)
(* below hold their values on the texts the inputs above can produce, and  *)
(* the handlers read the tables.                                           *)
(***************************************************************************)
\* q of preguntas.js:47 for each value of the parameter.
qDe == [qp \in ConsultasDeLectura |-> trim(qp)]

Q == {qDe[qp] : qp \in ConsultasDeLectura}

matchCapDe == [q \in Q |-> matchCapitulo(q)]

textoNormDe == [q \in Q |-> normalizar(q)]

\* capMatch ? parseInt(capMatch[1], 10) : null, as the set of its values.
capituloDe ==
  [q \in Q |-> IF matchCapitulo(textoNormDe[q]) = Nulo THEN {}
               ELSE {parseInt(matchCapitulo(textoNormDe[q]))}]

existenciaDe == [q \in Q |-> detectarExistencia(q)]

regexVerbosDe == [q \in Q |-> detectarVerbos(q)]

TextosNorm == {textoNormDe[q] : q \in Q}

Terminos == {existenciaDe[q] : q \in Q}

ListasDeVerbos == {regexVerbosDe[q] : q \in Q}

(***************************************************************************)
(* src/nlpProcessor.js: buscarEventoSimilar (after the read of the events) *)
(***************************************************************************)
Palabras(s) == {split(s)[i] : i \in 1..Len(split(s))}

Maximo(a, b) == IF a >= b THEN a ELSE b

\* calcularScore(a, b) as the fraction num / den.
calcularScore(a, b) ==
  [num |-> Cardinality(Palabras(a) \cap Palabras(b)),
   den |-> Maximo(Cardinality(Palabras(a)), 1)]

\* `${e.nombre} ${e.descripcion || ''}`, folded.
combinadoDe(nombre, descripcion) ==
  limpiarTexto(nombre \o <<" ">> \o
               (IF descripcion = Indefinido THEN <<>> ELSE descripcion))

scoreTabla ==
  [t \in TextosNorm, n \in NombresEvento, d \in DescripcionesEvento |->
     calcularScore(t, combinadoDe(n, d))]

\* The score of candidatos.map for the event e.
scoreDe(texto, e) == scoreTabla[texto, e.nombre, e.descripcion]

\* x > y for two fractions.
MayorQue(x, y) == x.num * y.den > y.num * x.den

\* The threshold 0.2 of `top.score > 0.2`, as the fraction 1 / 5.
UmbralNum == 1

UmbralDen == 5

\* superaUmbral with one half for the threshold.
superaUmbralMitad(score) == MayorQue(score, [num |-> 1, den |-> 2])

superaUmbral(score) == MayorQue(score, [num |-> UmbralNum, den |-> UmbralDen])

\* candidatos[0] after the stable sort by descending score: the first event,
\* in store order, of the highest score.
topDe(texto, eventos) ==
  CHOOSE i \in Ids(eventos) :
    /\ \A k \in Ids(eventos) :
         ~MayorQue(scoreDe(texto, eventos[k]), scoreDe(texto, eventos[i]))
    /\ \A k \in 1..(i - 1) :
         MayorQue(scoreDe(texto, eventos[i]), scoreDe(texto, eventos[k]))

\* buscarEventoSimilar once Evento.find has returned eventos: the _id of the
\* event returned, SinRef for null.
buscarEventoSimilar(pregunta, eventos) ==
  LET texto == textoNormDe[pregunta]
  IN IF Len(eventos) = 0 THEN SinRef
     ELSE IF superaUmbral(scoreDe(texto, eventos[topDe(texto, eventos)]))
     THEN topDe(texto, eventos)
     ELSE SinRef

(***************************************************************************)
(* src/nlpProcessor.js: the entity steps 4 to 6 of analizarPregunta        *)
(***************************************************************************)
\* personajeDetectado looking at the name only, not at the alias.
personajeDetectadoSinAlias(nombre, textoNorm) ==
  matchFlexible(extraerAlias(nombre).nombre, textoNorm)

\* The filter of step 4 for a stored nombre.
personajeDetectado(nombre, textoNorm) ==
  LET ea == extraerAlias(nombre)
  IN \/ matchFlexible(ea.nombre, textoNorm)
     \/ (ea.alias # Nulo /\ ea.alias # <<>> /\ matchFlexible(ea.alias, textoNorm))

\* The filter of steps 5 and 6 for a stored nombre.
nombreDetectado(nombre, textoNorm) == matchFlexible(limpiarTexto(nombre), textoNorm)

personajeTabla ==
  [n \in NombresEntidad, t \in TextosNorm |-> personajeDetectado(n, t)]

nombreTabla ==
  [n \in NombresEntidad, t \in TextosNorm |-> nombreDetectado(n, t)]

\* personajesBD.filter(...).map(p => p.nombre.trim())
personajesDetectados(personajesBD, textoNorm) ==
  LET hallados == SelectSeq(personajesBD, LAMBDA p : personajeTabla[p.nombre, textoNorm])
  IN [i \in 1..Len(hallados) |-> trim(hallados[i].nombre)]

\* The chain map/filter/map of steps 5 and 6.
nombresDetectados(docsBD, textoNorm) ==
  LET hallados == SelectSeq(docsBD, LAMBDA d : nombreTabla[d.nombre, textoNorm])
  IN [i \in 1..Len(hallados) |-> hallados[i].nombre]

(***************************************************************************)
(* src/routes/preguntas.js: the queries of the planner                     *)
(***************************************************************************)
\* { nombre: { $in: nombres.map(n => new RegExp(`^${escapeRegex(n)}$`, 'i')) } }
nombreEnLista(nombre, nombres) ==
  \E k \in 1..Len(nombres) : toLowerCase(nombre) = toLowerCase(nombres[k])

idsPorNombre(coleccion, nombres) ==
  {i \in Ids(coleccion) : nombreEnLista(coleccion[i].nombre, nombres)}

\* docsO.map(o => o.evento_relacionado).filter(eid => !!eid)
eventosDeObjetos(objetosBD, nombres) ==
  {objetosBD[i].evento_relacionado : i \in idsPorNombre(objetosBD, nombres)}
    \ {SinRef}

\* normalizarTexto of the existence branch.
normalizarTexto(str) ==
  SelectSeq(limpiarTexto(str), LAMBDA c : EsPalabra(c) \/ EsEspacio(c))

\* coincideTermino looking at the name alone.
coincideTerminoSoloNombre(nombre, descripcion, termino) ==
  includes(normalizarTexto(nombre), termino)

\* The filter over todosEventos of the existence branch, termino being
\* normalizarTexto(terminoExistencia).
coincideTermino(nombre, descripcion, termino) ==
  \/ includes(normalizarTexto(nombre), termino)
  \/ includes(normalizarTexto(IF descripcion = Indefinido THEN <<>>
                              ELSE descripcion), termino)

coincideTabla ==
  [n \in NombresEvento, d \in DescripcionesEvento, t \in Terminos |->
     coincideTermino(n, d, normalizarTexto(t))]

eventosCoincidentesDe(todos, terminoExistencia) ==
  {i \in Ids(todos) :
     coincideTabla[todos[i].nombre, todos[i].descripcion, terminoExistencia]}

\* { $or: [{descripcion: {$regex}}, {nombre: {$regex}}, ...] }
clausulaVerbos(nombre, descripcion, regexVerbos) ==
  \E k \in 1..Len(regexVerbos) :
    \/ (descripcion # Indefinido /\ testPalabra(regexVerbos[k], descripcion))
    \/ testPalabra(regexVerbos[k], nombre)

verbosTabla ==
  [n \in NombresEvento, d \in DescripcionesEvento, r \in ListasDeVerbos |->
     clausulaVerbos(n, d, r)]

\* consultaPrimaria joining the clauses with $or.
consultaPrimariaOr(eventos, regexVerbos, pIds, lIds, eObj) ==
  {i \in Ids(eventos) :
     \/ /\ Len(regexVerbos) > 0
        /\ verbosTabla[eventos[i].nombre, eventos[i].descripcion, regexVerbos]
     \/ eventos[i].personajes_involucrados \cap pIds # {}
     \/ eventos[i].lugar_relacionado \in lIds
     \/ i \in eObj}

\* Evento.find({ $and: andConds }), each clause pushed only when its input
\* is not empty.
consultaPrimaria(eventos, regexVerbos, pIds, lIds, eObj) ==
  {i \in Ids(eventos) :
     /\ \/ Len(regexVerbos) = 0
        \/ verbosTabla[eventos[i].nombre, eventos[i].descripcion, regexVerbos]
     /\ pIds = {} \/ eventos[i].personajes_involucrados \cap pIds # {}
     /\ lIds = {} \/ eventos[i].lugar_relacionado \in lIds
     /\ eObj = {} \/ i \in eObj}

\* Evento.find({ _id: { $in: ids } })
eventosPorId(eventos, ids) == Ids(eventos) \cap ids

\* Evento.find({ personajes_involucrados: { $in: personajeIds } })
eventosDePersonajes(eventos, pIds) ==
  {i \in Ids(eventos) : eventos[i].personajes_involucrados \cap pIds # {}}

\* Evento.find({ lugar_relacionado: { $in: lugarIds } })
eventosDeLugares(eventos, lIds) ==
  {i \in Ids(eventos) : eventos[i].lugar_relacionado \in lIds}

(***************************************************************************)
(* State                                                                   *)
(***************************************************************************)
VARIABLES
  personajesDB,         \* collection 'personajes'
  lugaresDB,            \* collection 'lugares'
  objetosDB,            \* collection 'objetos'
  eventosDB,            \* collection 'eventos'
  capitulosDB,          \* collection 'capitulos'
  escrituras,           \* POST/PUT requests served so far
  consulta,             \* req.query.q of the question request in hand
  pc,                   \* the await the question handler stands at
  capNum,               \* capNum of the shortcut
  capDoc,               \* the eventos of the chapter document found
  analisis,             \* the result of analizarPregunta, as far as built
  personajeIds,
  lugarIds,
  eventosDesdeObjetos,
  todosEventos,         \* the events read by the existence scan
  eventosCoincidentes,
  resultados,           \* the result of the primary query
  respuesta,            \* what res.json sent
  enviadas,             \* number of responses sent for the request
  lecturas,             \* the store reads the request has issued
  falladas              \* those of them that rejected

almacen == <<personajesDB, lugaresDB, objetosDB, eventosDB, capitulosDB>>

locales ==
  <<capNum, capDoc, analisis, personajeIds, lugarIds, eventosDesdeObjetos,
    todosEventos, eventosCoincidentes, resultados>>

vars ==
  <<almacen, escrituras, consulta, pc, locales, respuesta, enviadas, lecturas,
    falladas>>

\* A response: status 0 stands for "nothing sent".  capitulo is the tag of a
\* success ("numero" for a chapter number, held in numero), "" otherwise.
SinRespuesta ==
  [status |-> 0, capitulo |-> "", numero |-> 0, termino |-> Nulo,
   resultados |-> {}, error |-> ""]

Exito(etiqueta, n, termino, eventos) ==
  [status |-> 200, capitulo |-> etiqueta, numero |-> n, termino |-> termino,
   resultados |-> eventos, error |-> ""]

Fallo(status, mensaje) ==
  [status |-> status, capitulo |-> "", numero |-> 0, termino |-> Nulo,
   resultados |-> {}, error |-> mensaje]

AnalisisVacio ==
  [capitulo |-> {}, terminoExistencia |-> Nulo, regexVerbos |-> <<>>,
   personajes |-> <<>>, lugares |-> <<>>, objetos |-> <<>>, fuzzy |-> SinRef]

\* JavaScript truthiness of a string-or-null and of a number-or-null.
EsVerdadero(cadena) == cadena # Nulo /\ cadena # Indefinido /\ cadena # <<>>

HayCapitulo(c) == c # {} /\ c # {0}

Init ==
  /\ personajesDB = PersonajesIniciales
  /\ lugaresDB = LugaresIniciales
  /\ objetosDB = ObjetosIniciales
  /\ eventosDB = EventosIniciales
  /\ capitulosDB = CapitulosIniciales
  /\ escrituras = 0
  /\ consulta = Indefinido
  /\ pc = "reposo"
  /\ capNum = 0
  /\ capDoc = {}
  /\ analisis = AnalisisVacio
  /\ personajeIds = {}
  /\ lugarIds = {}
  /\ eventosDesdeObjetos = {}
  /\ todosEventos = <<>>
  /\ eventosCoincidentes = {}
  /\ resultados = {}
  /\ respuesta = SinRespuesta
  /\ enviadas = 0
  /\ lecturas = {}
  /\ falladas = {}

(***************************************************************************)
(* GET /api/preguntas, src/routes/preguntas.js:46-229.  One action per     *)
(* await; the synchronous code up to the next await belongs to the action. *)
(* A store read either returns or rejects (falla).                         *)
(***************************************************************************)
\* res.json / res.status(..).json: the handler returns.
Responder(r) ==
  /\ respuesta' = r
  /\ enviadas' = enviadas + 1
  /\ pc' = "respondida"

\* A rejection outside the try block: the handler ends without a response.
Abandonar ==
  /\ pc' = "abandonada"
  /\ UNCHANGED <<respuesta, enviadas>>

\* The catch block, lines 225-228.
ErrorInterno == Responder(Fallo(500, "Error interno del servidor"))

\* A read issued at the await `etiqueta`; falla tells whether it rejects.
Leer(etiqueta, falla) ==
  /\ lecturas' = lecturas \cup {etiqueta}
  /\ falladas' = IF falla THEN falladas \cup {etiqueta} ELSE falladas

\* primerPaso without the chapter shortcut of lines 55-68.
primerPasoSinAtajo(q) ==
  IF ~EsVerdadero(q) THEN "respondida"
  ELSE "anPersonajes"

\* primerPaso rejecting only a missing parameter, not an empty text.
primerPasoSoloAusente(q) ==
  IF q = Indefinido THEN "respondida"
  ELSE IF matchCapDe[q] # Nulo THEN "atajoFindOne"
  ELSE "anPersonajes"

\* Lines 49-71: where the handler goes first with the trimmed text q.
primerPaso(q) ==
  IF ~EsVerdadero(q) THEN "respondida"
  ELSE IF matchCapDe[q] # Nulo THEN "atajoFindOne"
  ELSE "anPersonajes"

\* Lines 47-71 up to the first await.
Recibir(qp) ==
  /\ pc \in {"reposo", "respondida", "abandonada"}
  /\ consulta' = qp
  /\ lecturas' = {}
  /\ falladas' = {}
  /\ capDoc' = {}
  /\ personajeIds' = {}
  /\ lugarIds' = {}
  /\ eventosDesdeObjetos' = {}
  /\ todosEventos' = <<>>
  /\ eventosCoincidentes' = {}
  /\ resultados' = {}
  /\ UNCHANGED <<almacen, escrituras>>
  /\ LET q == IF qp = Indefinido THEN Indefinido ELSE qDe[qp]
     IN IF primerPaso(q) = "respondida"
        THEN /\ respuesta' = Fallo(400, "Falta parametro q")
             /\ enviadas' = 1
             /\ pc' = "respondida"
             /\ capNum' = 0
             /\ analisis' = AnalisisVacio
        ELSE IF primerPaso(q) = "atajoFindOne"
        THEN /\ respuesta' = SinRespuesta
             /\ enviadas' = 0
             /\ pc' = "atajoFindOne"
             /\ capNum' = parseInt(matchCapDe[q])
             /\ analisis' = AnalisisVacio
        ELSE \* analizarPregunta, lines 226-234, up to Personaje.find
             /\ respuesta' = SinRespuesta
             /\ enviadas' = 0
             /\ pc' = "anPersonajes"
             /\ capNum' = 0
             /\ analisis' =
                  [AnalisisVacio EXCEPT !.capitulo = capituloDe[q],
                                        !.terminoExistencia = existenciaDe[q]]

\* The first document of a chapter number, as a set: {} for null.
capituloPorNumero(capitulos, n) ==
  IF \E i \in Ids(capitulos) : capitulos[i].numero = n
  THEN {CHOOSE i \in Ids(capitulos) :
          /\ capitulos[i].numero = n
          /\ \A k \in 1..(i - 1) : capitulos[k].numero # n}
  ELSE {}

\* respuestaSinCapitulo answering as the second detection does (line 81).
respuestaSinCapitulo404(n) == Fallo(404, "Capitulo no existe")

\* Line 64: the answer of the shortcut when no chapter has the number.
respuestaSinCapitulo(n) == Exito("numero", n, Nulo, {})

\* Line 81: the answer of the second detection when no chapter has it.
respuestaCapituloInexistente == Fallo(404, "Capitulo no existe")

\* Line 58: Capitulo.findOne({ numero: capNum }) of the shortcut.
AtajoFindOne(falla) ==
  /\ pc = "atajoFindOne"
  /\ Leer("atajoFindOne", falla)
  /\ UNCHANGED <<almacen, escrituras, consulta, capNum, analisis, personajeIds,
                 lugarIds, eventosDesdeObjetos, todosEventos,
                 eventosCoincidentes, resultados>>
  /\ IF falla THEN Abandonar /\ UNCHANGED capDoc
     ELSE LET doc == capituloPorNumero(capitulosDB, capNum)
          IN IF doc = {}
             THEN Responder(respuestaSinCapitulo(capNum)) /\ UNCHANGED capDoc
             ELSE /\ capDoc' = UNION {capitulosDB[i].eventos : i \in doc}
                  /\ pc' = "atajoPopulate"
                  /\ UNCHANGED <<respuesta, enviadas>>

\* AtajoPopulate saving the chapter back with its list of events emptied.
AtajoPopulateGuardando(falla) ==
  /\ pc = "atajoPopulate"
  /\ Leer("atajoPopulate", falla)
  /\ UNCHANGED <<personajesDB, lugaresDB, objetosDB, eventosDB, escrituras,
                 consulta, locales>>
  /\ capitulosDB' = [i \in Ids(capitulosDB) |->
                       IF capitulosDB[i].numero = capNum
                       THEN [capitulosDB[i] EXCEPT !.eventos = {}]
                       ELSE capitulosDB[i]]
  /\ IF falla THEN Abandonar
     ELSE Responder(Exito("numero", capNum, Nulo, eventosPorId(eventosDB, capDoc)))

\* Lines 58-61: the populate of the chapter's events.
AtajoPopulate(falla) ==
  /\ pc = "atajoPopulate"
  /\ Leer("atajoPopulate", falla)
  /\ UNCHANGED <<almacen, escrituras, consulta, locales>>
  /\ IF falla THEN Abandonar
     ELSE Responder(Exito("numero", capNum, Nulo, eventosPorId(eventosDB, capDoc)))

\* TrasResolucion answering the zero-result case with an error.
TrasResolucionNoEncontrado(an, pIds, lIds, eObj) ==
  IF EsVerdadero(an.terminoExistencia)
  THEN pc' = "existScan" /\ UNCHANGED <<respuesta, enviadas>>
  ELSE IF Len(an.regexVerbos) = 0 /\ pIds = {} /\ lIds = {} /\ eObj = {}
  THEN Responder(Fallo(404, "Sin resultados"))
  ELSE pc' = "primaria" /\ UNCHANGED <<respuesta, enviadas>>

\* TrasResolucion without the zero-result return of lines 165-172.
TrasResolucionSinAtajo(an, pIds, lIds, eObj) ==
  IF EsVerdadero(an.terminoExistencia)
  THEN pc' = "existScan" /\ UNCHANGED <<respuesta, enviadas>>
  ELSE pc' = "primaria" /\ UNCHANGED <<respuesta, enviadas>>

\* TrasResolucion testing the names the analysis detected instead of the
\* ids they resolved to.
TrasResolucionPorNombres(an, pIds, lIds, eObj) ==
  IF EsVerdadero(an.terminoExistencia)
  THEN pc' = "existScan" /\ UNCHANGED <<respuesta, enviadas>>
  ELSE IF Len(an.regexVerbos) = 0 /\ Len(an.personajes) = 0
            /\ Len(an.lugares) = 0 /\ Len(an.objetos) = 0
  THEN Responder(Exito("todos", 0, Nulo, {}))
  ELSE pc' = "primaria" /\ UNCHANGED <<respuesta, enviadas>>

\* Lines 165-173 and what follows the id resolution: the existence branch,
\* the zero-result return, or the primary query.
TrasResolucion(an, pIds, lIds, eObj) ==
  IF EsVerdadero(an.terminoExistencia)
  THEN pc' = "existScan" /\ UNCHANGED <<respuesta, enviadas>>
  ELSE IF Len(an.regexVerbos) = 0 /\ pIds = {} /\ lIds = {} /\ eObj = {}
  THEN Responder(Exito("todos", 0, Nulo, {}))
  ELSE pc' = "primaria" /\ UNCHANGED <<respuesta, enviadas>>

\* Lines 106-135: the next lookup of names that has names to look up, after
\* the lookups already done (hechas).
Resolver(hechas, an, pIds, lIds, eObj) ==
  IF hechas < 1 /\ Len(an.personajes) > 0
  THEN pc' = "resPersonajes" /\ UNCHANGED <<respuesta, enviadas>>
  ELSE IF hechas < 2 /\ Len(an.lugares) > 0
  THEN pc' = "resLugares" /\ UNCHANGED <<respuesta, enviadas>>
  ELSE IF hechas < 3 /\ Len(an.objetos) > 0
  THEN pc' = "resObjetos" /\ UNCHANGED <<respuesta, enviadas>>
  ELSE TrasResolucion(an, pIds, lIds, eObj)

\* TrasAnalisis without the fuzzy return of lines 96-104.
TrasAnalisisSinSimilar(an) ==
  IF HayCapitulo(an.capitulo)
  THEN pc' = "secFindOne" /\ UNCHANGED <<respuesta, enviadas>>
  ELSE Resolver(0, an, {}, {}, {})

\* Lines 72-105 once analizarPregunta has returned an.
TrasAnalisis(an) ==
  IF HayCapitulo(an.capitulo)
  THEN pc' = "secFindOne" /\ UNCHANGED <<respuesta, enviadas>>
  ELSE IF an.fuzzy # SinRef /\ ~EsVerdadero(an.terminoExistencia)
  THEN pc' = "fuzzyPopulate" /\ UNCHANGED <<respuesta, enviadas>>
  ELSE Resolver(0, an, {}, {}, {})

\* nlpProcessor.js:237, Personaje.find({}, 'nombre'); step 4 of the analysis
\* is a function of what this read returned.
AnPersonajes(falla) ==
  /\ pc = "anPersonajes"
  /\ Leer("anPersonajes", falla)
  /\ UNCHANGED <<almacen, escrituras, consulta, capNum, capDoc, personajeIds,
                 lugarIds, eventosDesdeObjetos, todosEventos,
                 eventosCoincidentes, resultados>>
  /\ IF falla THEN Abandonar /\ UNCHANGED analisis
     ELSE /\ analisis' = [analisis EXCEPT !.personajes =
                 personajesDetectados(personajesDB, textoNormDe[qDe[consulta]])]
          /\ pc' = "anLugares"
          /\ UNCHANGED <<respuesta, enviadas>>

\* nlpProcessor.js:238, Lugar.find({}, 'nombre'), and step 5.
AnLugares(falla) ==
  /\ pc = "anLugares"
  /\ Leer("anLugares", falla)
  /\ UNCHANGED <<almacen, escrituras, consulta, capNum, capDoc, personajeIds,
                 lugarIds, eventosDesdeObjetos, todosEventos,
                 eventosCoincidentes, resultados>>
  /\ IF falla THEN Abandonar /\ UNCHANGED analisis
     ELSE /\ analisis' = [analisis EXCEPT !.lugares =
                 nombresDetectados(lugaresDB, textoNormDe[qDe[consulta]])]
          /\ pc' = "anObjetos"
          /\ UNCHANGED <<respuesta, enviadas>>

\* nlpProcessor.js:239, Objeto.find, then steps 6 and 7 and, for an
\* existence question, the return of analizarPregunta (step 8 skipped).
AnObjetos(falla) ==
  /\ pc = "anObjetos"
  /\ Leer("anObjetos", falla)
  /\ UNCHANGED <<almacen, escrituras, consulta, capNum, capDoc, personajeIds,
                 lugarIds, eventosDesdeObjetos, todosEventos,
                 eventosCoincidentes, resultados>>
  /\ IF falla THEN Abandonar /\ UNCHANGED analisis
     ELSE LET an == [analisis EXCEPT
                       !.objetos = nombresDetectados(objetosDB, textoNormDe[qDe[consulta]]),
                       !.regexVerbos = regexVerbosDe[qDe[consulta]]]
          IN /\ analisis' = an
             /\ IF ~EsVerdadero(an.terminoExistencia)
                THEN pc' = "anFuzzy" /\ UNCHANGED <<respuesta, enviadas>>
                ELSE TrasAnalisis(an)

\* nlpProcessor.js:161, Evento.find of buscarEventoSimilar: a rejection is
\* caught there and the function returns null.
AnFuzzy(falla) ==
  /\ pc = "anFuzzy"
  /\ Leer("anFuzzy", falla)
  /\ UNCHANGED <<almacen, escrituras, consulta, capNum, capDoc, personajeIds,
                 lugarIds, eventosDesdeObjetos, todosEventos,
                 eventosCoincidentes, resultados>>
  /\ LET an == [analisis EXCEPT !.fuzzy =
                  IF falla THEN SinRef ELSE buscarEventoSimilar(qDe[consulta], eventosDB)]
     IN analisis' = an /\ TrasAnalisis(an)

\* Line 78: Capitulo.findOne({ numero: capitulo }) inside the try block.
SecFindOne(falla) ==
  /\ pc = "secFindOne"
  /\ Leer("secFindOne", falla)
  /\ UNCHANGED <<almacen, escrituras, consulta, capNum, analisis, personajeIds,
                 lugarIds, eventosDesdeObjetos, todosEventos,
                 eventosCoincidentes, resultados>>
  /\ IF falla THEN ErrorInterno /\ UNCHANGED capDoc
     ELSE LET doc == UNION {capituloPorNumero(capitulosDB, n) : n \in analisis.capitulo}
          IN IF doc = {}
             THEN Responder(respuestaCapituloInexistente) /\ UNCHANGED capDoc
             ELSE /\ capDoc' = UNION {capitulosDB[i].eventos : i \in doc}
                  /\ pc' = "secPopulate"
                  /\ UNCHANGED <<respuesta, enviadas>>

\* Lines 83-92: capDoc.populate and the response.
SecPopulate(falla) ==
  /\ pc = "secPopulate"
  /\ Leer("secPopulate", falla)
  /\ UNCHANGED <<almacen, escrituras, consulta, locales>>
  /\ IF falla THEN ErrorInterno
     ELSE Responder(Exito("numero", CHOOSE n \in analisis.capitulo : TRUE, Nulo,
                          eventosPorId(eventosDB, capDoc)))

\* Lines 96-103: fuzzy.populate and the response.
FuzzyPopulate(falla) ==
  /\ pc = "fuzzyPopulate"
  /\ Leer("fuzzyPopulate", falla)
  /\ UNCHANGED <<almacen, escrituras, consulta, locales>>
  /\ IF falla THEN ErrorInterno
     ELSE Responder(Exito("similar", 0, Nulo, {analisis.fuzzy}))

\* Lines 108-115: Personaje.find by exact name.
ResPersonajes(falla) ==
  /\ pc = "resPersonajes"
  /\ Leer("resPersonajes", falla)
  /\ UNCHANGED <<almacen, escrituras, consulta, capNum, capDoc, analisis,
                 lugarIds, eventosDesdeObjetos, todosEventos,
                 eventosCoincidentes, resultados>>
  /\ IF falla THEN ErrorInterno /\ UNCHANGED personajeIds
     ELSE LET pIds == idsPorNombre(personajesDB, analisis.personajes)
          IN /\ personajeIds' = pIds
             /\ Resolver(1, analisis, pIds, lugarIds, eventosDesdeObjetos)

\* Lines 117-123: Lugar.find by exact name.
ResLugares(falla) ==
  /\ pc = "resLugares"
  /\ Leer("resLugares", falla)
  /\ UNCHANGED <<almacen, escrituras, consulta, capNum, capDoc, analisis,
                 personajeIds, eventosDesdeObjetos, todosEventos,
                 eventosCoincidentes, resultados>>
  /\ IF falla THEN ErrorInterno /\ UNCHANGED lugarIds
     ELSE LET lIds == idsPorNombre(lugaresDB, analisis.lugares)
          IN /\ lugarIds' = lIds
             /\ Resolver(2, analisis, personajeIds, lIds, eventosDesdeObjetos)

\* Lines 126-134: Objeto.find by exact name, evento_relacionado kept.
ResObjetos(falla) ==
  /\ pc = "resObjetos"
  /\ Leer("resObjetos", falla)
  /\ UNCHANGED <<almacen, escrituras, consulta, capNum, capDoc, analisis,
                 personajeIds, lugarIds, todosEventos,
                 eventosCoincidentes, resultados>>
  /\ IF falla THEN ErrorInterno /\ UNCHANGED eventosDesdeObjetos
     ELSE LET eObj == eventosDeObjetos(objetosDB, analisis.objetos)
          IN /\ eventosDesdeObjetos' = eObj
             /\ Resolver(3, analisis, personajeIds, lugarIds, eObj)

\* Line 149: Evento.find({}, 'nombre descripcion') and the filter over it.
ExistScan(falla) ==
  /\ pc = "existScan"
  /\ Leer("existScan", falla)
  /\ UNCHANGED <<almacen, escrituras, consulta, capNum, capDoc, analisis,
                 personajeIds, lugarIds, eventosDesdeObjetos, resultados>>
  /\ IF falla THEN ErrorInterno /\ UNCHANGED <<todosEventos, eventosCoincidentes>>
     ELSE /\ todosEventos' = eventosDB
          /\ eventosCoincidentes' =
               eventosCoincidentesDe(eventosDB, analisis.terminoExistencia)
          /\ pc' = "existFinal"
          /\ UNCHANGED <<respuesta, enviadas>>

\* terminoRespuesta sending the termino of line 147, the term the scan used.
terminoRespuestaNormalizado(terminoExistencia) ==
  normalizarTexto(terminoExistencia)

\* Line 162: the termino field of the response.
terminoRespuesta(terminoExistencia) == terminoExistencia

\* Lines 159-162: the events of the matching ids, and the response.
ExistFinal(falla) ==
  /\ pc = "existFinal"
  /\ Leer("existFinal", falla)
  /\ UNCHANGED <<almacen, escrituras, consulta, locales>>
  /\ IF falla THEN ErrorInterno
     ELSE Responder(Exito("existencia", 0, terminoRespuesta(analisis.terminoExistencia),
                          eventosPorId(eventosDB, eventosCoincidentes)))

\* fallbackDe trying the characters before the objects.
fallbackDePersonajesPrimero(r, eObj, pIds, lIds) ==
  IF r = {} /\ pIds # {} THEN "fbPersonajes"
  ELSE IF r = {} /\ eObj # {} THEN "fbObjetos"
  ELSE IF r = {} /\ lIds # {} THEN "fbLugares"
  ELSE "respondida"

\* Lines 206-220: the await the if / else-if chain goes to after the primary
\* query returned r, "respondida" when it goes to none.
fallbackDe(r, eObj, pIds, lIds) ==
  IF r = {} /\ eObj # {} THEN "fbObjetos"
  ELSE IF r = {} /\ pIds # {} THEN "fbPersonajes"
  ELSE IF r = {} /\ lIds # {} THEN "fbLugares"
  ELSE "respondida"

\* Lines 175-223: the primary query, then the fallback chosen by the
\* if / else-if chain, or the response.
Primaria(falla) ==
  /\ pc = "primaria"
  /\ Leer("primaria", falla)
  /\ UNCHANGED <<almacen, escrituras, consulta, capNum, capDoc, analisis,
                 personajeIds, lugarIds, eventosDesdeObjetos, todosEventos,
                 eventosCoincidentes>>
  /\ IF falla THEN ErrorInterno /\ UNCHANGED resultados
     ELSE LET r == consultaPrimaria(eventosDB, analisis.regexVerbos,
                                    personajeIds, lugarIds, eventosDesdeObjetos)
          IN /\ resultados' = r
             /\ IF fallbackDe(r, eventosDesdeObjetos, personajeIds, lugarIds) = "respondida"
                THEN Responder(Exito("todos", 0, Nulo, r))
                ELSE /\ pc' = fallbackDe(r, eventosDesdeObjetos, personajeIds, lugarIds)
                     /\ UNCHANGED <<respuesta, enviadas>>

\* Lines 206-210, the fallback on the events of the matched objects.
FbObjetos(falla) ==
  /\ pc = "fbObjetos"
  /\ Leer("fbObjetos", falla)
  /\ UNCHANGED <<almacen, escrituras, consulta, locales>>
  /\ IF falla THEN ErrorInterno
     ELSE Responder(Exito("todos", 0, Nulo,
                          eventosPorId(eventosDB, eventosDesdeObjetos)))

\* Lines 211-215, the fallback on the events of the matched characters.
FbPersonajes(falla) ==
  /\ pc = "fbPersonajes"
  /\ Leer("fbPersonajes", falla)
  /\ UNCHANGED <<almacen, escrituras, consulta, locales>>
  /\ IF falla THEN ErrorInterno
     ELSE Responder(Exito("todos", 0, Nulo,
                          eventosDePersonajes(eventosDB, personajeIds)))

\* Lines 216-220, the fallback on the events of the matched places.
FbLugares(falla) ==
  /\ pc = "fbLugares"
  /\ Leer("fbLugares", falla)
  /\ UNCHANGED <<almacen, escrituras, consulta, locales>>
  /\ IF falla THEN ErrorInterno
     ELSE Responder(Exito("todos", 0, Nulo, eventosDeLugares(eventosDB, lugarIds)))

(***************************************************************************)
(* The handlers that change the store.  Each is one atomic write of the    *)
(* store; the question handler reads between them.                         *)
(***************************************************************************)
\* The number of POST/PUT requests a run of the model serves.
MaxEscrituras == 1

Escribir ==
  /\ escrituras < MaxEscrituras
  /\ escrituras' = escrituras + 1
  /\ UNCHANGED <<consulta, pc, locales, respuesta, enviadas, lecturas, falladas>>

\* POST /api/personajes
PostPersonaje(nombre) ==
  /\ Escribir
  /\ nombre # <<>>
  /\ personajesDB' = Append(personajesDB, [nombre |-> nombre])
  /\ UNCHANGED <<lugaresDB, objetosDB, eventosDB, capitulosDB>>

\* PUT /api/personajes/:id with a nombre in the body
PutPersonaje(id, nombre) ==
  /\ Escribir
  /\ id \in Ids(personajesDB)
  /\ personajesDB' = [personajesDB EXCEPT ![id].nombre = nombre]
  /\ UNCHANGED <<lugaresDB, objetosDB, eventosDB, capitulosDB>>

\* POST /api/lugares
PostLugar(nombre) ==
  /\ Escribir
  /\ nombre # <<>>
  /\ lugaresDB' = Append(lugaresDB, [nombre |-> nombre])
  /\ UNCHANGED <<personajesDB, objetosDB, eventosDB, capitulosDB>>

\* PUT /api/lugares/:id with a nombre in the body
PutLugar(id, nombre) ==
  /\ Escribir
  /\ id \in Ids(lugaresDB)
  /\ lugaresDB' = [lugaresDB EXCEPT ![id].nombre = nombre]
  /\ UNCHANGED <<personajesDB, objetosDB, eventosDB, capitulosDB>>

\* POST /api/objetos: evento_relacionado is stored as sent.
PostObjeto(nombre, evento) ==
  /\ Escribir
  /\ nombre # <<>>
  /\ objetosDB' = Append(objetosDB, [nombre |-> nombre, evento_relacionado |-> evento])
  /\ UNCHANGED <<personajesDB, lugaresDB, eventosDB, capitulosDB>>

\* PUT /api/objetos/:id: only the fields sent are changed.
PutObjeto(id, cambiaNombre, nombre, cambiaEvento, evento) ==
  /\ Escribir
  /\ id \in Ids(objetosDB)
  /\ cambiaNombre \/ cambiaEvento
  /\ objetosDB' = [objetosDB EXCEPT
       ![id].nombre = IF cambiaNombre THEN nombre ELSE @,
       ![id].evento_relacionado = IF cambiaEvento THEN evento ELSE @]
  /\ UNCHANGED <<personajesDB, lugaresDB, eventosDB, capitulosDB>>

\* POST /api/eventos: the characters and the place sent must exist.
PostEvento(nombre, descripcion, personajes, lugar) ==
  /\ Escribir
  /\ nombre # <<>>
  /\ personajes \subseteq Ids(personajesDB)
  /\ lugar = SinRef \/ lugar \in Ids(lugaresDB)
  /\ eventosDB' = Append(eventosDB,
       [nombre |-> nombre, descripcion |-> descripcion,
        personajes_involucrados |-> personajes, lugar_relacionado |-> lugar])
  /\ UNCHANGED <<personajesDB, lugaresDB, objetosDB, capitulosDB>>

\* PUT /api/eventos/:id: only the fields sent are changed, unchecked.
PutEvento(id, cambiaPersonajes, personajes, cambiaLugar, lugar) ==
  /\ Escribir
  /\ id \in Ids(eventosDB)
  /\ cambiaPersonajes \/ cambiaLugar
  /\ eventosDB' = [eventosDB EXCEPT
       ![id].personajes_involucrados = IF cambiaPersonajes THEN personajes ELSE @,
       ![id].lugar_relacionado = IF cambiaLugar THEN lugar ELSE @]
  /\ UNCHANGED <<personajesDB, lugaresDB, objetosDB, capitulosDB>>

Next ==
  \/ \E qp \in Consultas : Recibir(qp)
  \/ \E falla \in BOOLEAN :
       \/ AtajoFindOne(falla)
       \/ AtajoPopulate(falla)
       \/ AnPersonajes(falla)
       \/ AnLugares(falla)
       \/ AnObjetos(falla)
       \/ AnFuzzy(falla)
       \/ SecFindOne(falla)
       \/ SecPopulate(falla)
       \/ FuzzyPopulate(falla)
       \/ ResPersonajes(falla)
       \/ ResLugares(falla)
       \/ ResObjetos(falla)
       \/ ExistScan(falla)
       \/ ExistFinal(falla)
       \/ Primaria(falla)
       \/ FbObjetos(falla)
       \/ FbPersonajes(falla)
       \/ FbLugares(falla)
  \/ \E nombre \in NombresNuevos :
       \/ PostPersonaje(nombre)
       \/ PostLugar(nombre)
       \/ \E id \in Ids(personajesDB) : PutPersonaje(id, nombre)
       \/ \E id \in Ids(lugaresDB) : PutLugar(id, nombre)
       \/ \E evento \in RefsEvento : PostObjeto(nombre, evento)
       \/ \E id \in Ids(objetosDB), cn, ce \in BOOLEAN, evento \in RefsEvento :
            PutObjeto(id, cn, nombre, ce, evento)
       \/ \E personajes \in {{}, {2}} :
            PostEvento(nombre, Indefinido, personajes, SinRef)
  \/ \E id \in Ids(eventosDB), cp, cl \in BOOLEAN :
       PutEvento(id, cp, {2}, cl, 1)

Spec == Init /\ [][Next]_vars

(***************************************************************************)
(* The question handler alone, on a store no request writes: the store is  *)
(* one of AlmacenesDeLectura from the start.                               *)
(***************************************************************************)
AlmacenInicial ==
  [personajes |-> PersonajesIniciales, lugares |-> LugaresIniciales,
   objetos |-> ObjetosIniciales, eventos |-> EventosIniciales,
   capitulos |-> CapitulosIniciales]

\* The store after PUT /api/personajes/1 and PUT /api/lugares/1 with names
\* that carry white space.
AlmacenConEspacios ==
  [AlmacenInicial EXCEPT
     !.personajes[1].nombre = <<"Ú","r","s","u","l","a"," ">>,
     !.lugares[1].nombre = <<" ","M","a","c","o","n","d","o">>]

AlmacenesDeLectura == { AlmacenInicial, AlmacenConEspacios }

InitLectura ==
  /\ \E a \in AlmacenesDeLectura :
       /\ personajesDB = a.personajes
       /\ lugaresDB = a.lugares
       /\ objetosDB = a.objetos
       /\ eventosDB = a.eventos
       /\ capitulosDB = a.capitulos
  /\ escrituras = 0
  /\ consulta = Indefinido
  /\ pc = "reposo"
  /\ capNum = 0
  /\ capDoc = {}
  /\ analisis = AnalisisVacio
  /\ personajeIds = {}
  /\ lugarIds = {}
  /\ eventosDesdeObjetos = {}
  /\ todosEventos = <<>>
  /\ eventosCoincidentes = {}
  /\ resultados = {}
  /\ respuesta = SinRespuesta
  /\ enviadas = 0
  /\ lecturas = {}
  /\ falladas = {}

NextLectura ==
  \/ \E qp \in ConsultasDeLectura : Recibir(qp)
  \/ \E falla \in BOOLEAN :
       \/ AtajoFindOne(falla)
       \/ AtajoPopulate(falla)
       \/ AnPersonajes(falla)
       \/ AnLugares(falla)
       \/ AnObjetos(falla)
       \/ AnFuzzy(falla)
       \/ SecFindOne(falla)
       \/ SecPopulate(falla)
       \/ FuzzyPopulate(falla)
       \/ ResPersonajes(falla)
       \/ ResLugares(falla)
       \/ ResObjetos(falla)
       \/ ExistScan(falla)
       \/ ExistFinal(falla)
       \/ Primaria(falla)
       \/ FbObjetos(falla)
       \/ FbPersonajes(falla)
       \/ FbLugares(falla)

SpecLectura == InitLectura /\ [][NextLectura]_vars

(***************************************************************************)
(* Properties of the question handler.                                     *)
(***************************************************************************)
\* The chapter number the raw text of the request in hand names: a set with
\* that number, empty when the text names none or there is no text.
numeroPedido ==
  IF consulta \in Preguntas /\ EsVerdadero(qDe[consulta])
       /\ matchCapDe[qDe[consulta]] # Nulo
  THEN {parseInt(matchCapDe[qDe[consulta]])}
  ELSE {}

\* The positions of the stored chapters numbered n.
capitulosNumerados(n) == {i \in 1..Len(capitulosDB) : capitulosDB[i].numero = n}

\* The reads of the shortcut.
LecturasAtajo == {"atajoFindOne", "atajoPopulate"}

\* C1: when the raw text of the question names a chapter N, the handler
\* issues no read but the two of the chapter lookup (no analysis, no
\* resolution, no query), it ends without a response only when one of those
\* reads rejected, and when a chapter N is stored the response it sends is
\* the success tagged N that carries exactly the events linked to that chapter.
C1_AtajoCapitulo ==
  \A n \in numeroPedido :
    /\ lecturas \subseteq LecturasAtajo
    /\ pc = "abandonada" => falladas # {}
    /\ (pc = "respondida" /\ capitulosNumerados(n) # {}) =>
         respuesta =
           Exito("numero", n, Nulo,
                 UNION {capitulosDB[i].eventos \cap Ids(eventosDB) :
                          i \in capitulosNumerados(n)})

\* A question that names chapter 1 and also matches an existence template
\* was answered with the two events of chapter 1.
C1_Testigo ==
  /\ pc = "respondida"
  /\ consulta = <<"h","u","b","o"," ","g","u","e","r","r","a"," ","e","n"," ","e","l"," ","c","a","p","í","t","u","l","o"," ","1">>
  /\ existenciaDe[qDe[consulta]] # Nulo
  /\ respuesta = Exito("numero", 1, Nulo, {1, 2})
  /\ lecturas = LecturasAtajo

LecturasTrasAnalisis ==
  {"secFindOne", "secPopulate", "resPersonajes", "resLugares", "resObjetos",
   "existScan", "existFinal", "primaria", "fbObjetos", "fbPersonajes",
   "fbLugares"}

\* C3: once the analysis has returned no chapter number, an event from the
\* fuzzy ranker and a null existence term, the handler issues none of the
\* reads of the name resolution, of the existence scan, of the primary query
\* or of the fallbacks, and the response it sends when no read rejected is
\* the success tagged "similar" that carries exactly the ranker's event.
C3_Similar ==
  (numeroPedido = {} /\ ~HayCapitulo(analisis.capitulo)
     /\ analisis.fuzzy # SinRef /\ analisis.terminoExistencia = Nulo) =>
    /\ lecturas \cap LecturasTrasAnalisis = {}
    /\ pc \in {"fuzzyPopulate", "respondida"}
    /\ (pc = "respondida" /\ falladas = {}) =>
         respuesta = Exito("similar", 0, Nulo, {analisis.fuzzy})

\* A question that matched a verb and a place, and whose text is close to
\* one event, was answered with that event alone.
C3_Testigo ==
  /\ pc = "respondida"
  /\ consulta = <<"¿","Q","u","i","é","n"," ","m","u","r","i","ó"," ","e","n"," ","M","a","c","o","n","d","o","?">>
  /\ Len(analisis.regexVerbos) > 0
  /\ Len(analisis.lugares) > 0
  /\ analisis.terminoExistencia = Nulo
  /\ respuesta.capitulo = "similar"
  /\ Cardinality(respuesta.resultados) = 1

\* The existence term detectarExistencia returns for the request in hand, as
\* a set: empty when the request has no text or the detector returns null.
terminoPedido ==
  IF consulta \in Preguntas /\ EsVerdadero(qDe[consulta])
       /\ existenciaDe[qDe[consulta]] # Nulo
  THEN {existenciaDe[qDe[consulta]]}
  ELSE {}

\* The request in hand names no chapter, in its raw text or in its
\* normalised text.
SinCapitulo ==
  /\ consulta \in Preguntas /\ EsVerdadero(qDe[consulta])
  /\ numeroPedido = {}
  /\ capituloDe[qDe[consulta]] = {}

\* C4: for a question that names no chapter and for which detectarExistencia
\* returns a non-null term, the fuzzy ranker's read of the events is never
\* issued, and the response sent when no read rejected has the "existencia"
\* shape.
C4_CompuertaExistencia ==
  (SinCapitulo /\ terminoPedido # {}) =>
    /\ "anFuzzy" \notin lecturas
    /\ (pc = "respondida" /\ falladas = {}) => respuesta.capitulo = "existencia"

\* The fold of the specification: lower case, diacritics removed.
plegar(texto) == limpiarTexto(texto)

\* The text the specification scans: name and description of an event.
nombreYDescripcion(e) ==
  IF e.descripcion = Indefinido THEN e.nombre
  ELSE e.nombre \o <<" ">> \o e.descripcion

\* C5 as the specification states it: the "existencia" response carries
\* exactly the scanned events whose folded name+description contains the
\* folded existence term.
C5_ContencionPlegada ==
  (pc = "respondida" /\ respuesta.capitulo = "existencia") =>
    respuesta.resultados =
      {i \in Ids(todosEventos) :
         includes(plegar(nombreYDescripcion(todosEventos[i])),
                  plegar(analisis.terminoExistencia))}

\* A folded text without the characters that are neither letters a-z,
\* digits, underscore nor white space.
sinPuntuacion(texto) ==
  SelectSeq(plegar(texto), LAMBDA c : EsPalabra(c) \/ EsEspacio(c))

\* C5: the "existencia" response carries exactly the scanned events whose
\* name, or whose description, folded and stripped of punctuation, contains
\* the existence term folded and stripped of punctuation; verbs, characters,
\* places and objects of the question do not restrict the set.
C5_ContencionSinPuntuacion ==
  (pc = "respondida" /\ respuesta.capitulo = "existencia") =>
    respuesta.resultados =
      {i \in Ids(todosEventos) :
         \/ includes(sinPuntuacion(todosEventos[i].nombre),
                     sinPuntuacion(analisis.terminoExistencia))
         \/ /\ todosEventos[i].descripcion # Indefinido
            /\ includes(sinPuntuacion(todosEventos[i].descripcion),
                        sinPuntuacion(analisis.terminoExistencia))}

\* "guerra civil" was found in the event named "Guerra, civil", and the
\* verbs the question matched did not restrict the answer.
C5_Testigo ==
  /\ pc = "respondida"
  /\ consulta = <<"¿","H","u","b","o"," ","a","l","g","u","n","a"," ","g","u","e","r","r","a"," ","c","i","v","i","l","?">>
  /\ Len(analisis.regexVerbos) > 0
  /\ respuesta.capitulo = "existencia"
  /\ respuesta.resultados = {2}

\* C6 as the specification states it: the term of an "existencia" response is
\* the term as the user wrote it, a piece of the question's raw text.
C6_TerminoOriginal ==
  (pc = "respondida" /\ respuesta.capitulo = "existencia") =>
    includes(qDe[consulta], respuesta.termino)

\* C6: the term of an "existencia" response is the value detectarExistencia
\* returned: a piece of the folded question, in lower case and without
\* diacritics, with its punctuation other than the trailing one kept.
C6_TerminoPlegado ==
  (pc = "respondida" /\ respuesta.capitulo = "existencia") =>
    /\ respuesta.termino \in terminoPedido
    /\ plegar(respuesta.termino) = respuesta.termino
    /\ includes(plegar(qDe[consulta]), respuesta.termino)

\* "¿Existió Úrsula?" was answered with the term "ursula".
C6_Testigo ==
  /\ pc = "respondida"
  /\ consulta = <<"¿","E","x","i","s","t","i","ó"," ","Ú","r","s","u","l","a","?">>
  /\ respuesta.capitulo = "existencia"
  /\ respuesta.termino = <<"u","r","s","u","l","a">>

\* The request in hand has been handed to analizarPregunta.
Analizada ==
  /\ pc \notin {"reposo"}
  /\ consulta \in Preguntas /\ EsVerdadero(qDe[consulta])
  /\ numeroPedido = {}

\* The question in lower case without its question marks, as the templates
\* see it.
preguntaSinSignos == sinSignosDe(qDe[consulta])

\* s begins with the words p followed by white space and something else.
plantillaCon(s, p) ==
  /\ EmpiezaEn(s, 1, p)
  /\ Len(s) > Len(p) /\ EsEspacio(s[Len(p) + 1])
  /\ \E i \in (Len(p) + 2)..Len(s) : ~EsEspacio(s[i])

\* What follows the words p in s, cleaned as a captured term is.
terminoTras(s, p) == limpiarTermino(SubSeq(s, Len(p) + 1, Len(s)))

PalabrasDePlantilla == {<<"h","u","b","o">>, <<"e","x","i","s","t","e">>, <<"e","x","i","s","t","i","ó">>, <<"h","a","y">>}

\* C7: the templates are tried in their order and the first that matches
\* gives the term: a question "hubo alguna X" (or "hay alguna X") gives X
\* cleaned, never "alguna X"; a question "hubo X", "existió X" or "hay X"
\* that is not of the "alguna" form gives X cleaned; and a question that
\* begins with none of the words of the templates gives null.
C7_OrdenPlantillas ==
  Analizada =>
    LET s == preguntaSinSignos
        t == analisis.terminoExistencia
    IN /\ \A p \in {<<"h","u","b","o"," ","a","l","g","u","n","a">>, <<"h","a","y"," ","a","l","g","u","n","a">>} :
            plantillaCon(s, p) => t = terminoTras(s, p)
       /\ \A p \in {<<"h","u","b","o">>, <<"e","x","i","s","t","i","ó">>, <<"h","a","y">>} :
            (plantillaCon(s, p) /\ ~plantillaCon(s, p \o <<" ","a","l","g","u","n","a">>)) =>
              t = terminoTras(s, p)
       /\ (\A p \in PalabrasDePlantilla : ~EmpiezaEn(s, 1, p)) => t = Nulo

\* "¿Hubo alguna guerra civil?" was analysed and gave "guerra civil".
C7_Testigo ==
  /\ Analizada
  /\ consulta = <<"¿","H","u","b","o"," ","a","l","g","u","n","a"," ","g","u","e","r","r","a"," ","c","i","v","i","l","?">>
  /\ analisis.terminoExistencia = <<"g","u","e","r","r","a"," ","c","i","v","i","l">>

\* C8: for the templates "existe(n)? alguna X" and "existe(n)? X", in the
\* singular and in the plural, the term returned is X cleaned (trimmed,
\* trailing punctuation stripped, folded).
C8_TerminoCapturado ==
  Analizada =>
    LET s == preguntaSinSignos
        t == analisis.terminoExistencia
    IN /\ \A p \in {<<"e","x","i","s","t","e"," ","a","l","g","u","n","a">>, <<"e","x","i","s","t","e","n"," ","a","l","g","u","n","a">>} :
            plantillaCon(s, p) => t = terminoTras(s, p)
       /\ \A p \in {<<"e","x","i","s","t","e">>, <<"e","x","i","s","t","e","n">>} :
            (plantillaCon(s, p) /\ ~plantillaCon(s, p \o <<" ","a","l","g","u","n","a">>)) =>
              t = terminoTras(s, p)

\* The three fallback sets over the stored events: the events that the
\* matched objects reference, those that involve a matched character, those
\* at a matched place.
porObjetos == eventosDesdeObjetos \cap Ids(eventosDB)

porPersonajes ==
  {i \in Ids(eventosDB) :
     eventosDB[i].personajes_involucrados \cap personajeIds # {}}

porLugares ==
  {i \in Ids(eventosDB) : eventosDB[i].lugar_relacionado \in lugarIds}

\* A step in which the handler sends a success after the primary query
\* returned no event.
RespondeTrasPrimariaVacia ==
  /\ pc \in {"primaria", "fbObjetos", "fbPersonajes", "fbLugares"}
  /\ pc' = "respondida"
  /\ respuesta'.status = 200
  /\ resultados' = {}

\* C9: when the primary query returns no event, the response tagged "todos"
\* carries the first non-empty of the three fallback sets, taken in the order
\* objects, characters, places, and is empty only when the three are empty.
C9_PrimeroNoVacio ==
  [][RespondeTrasPrimariaVacia =>
       /\ respuesta'.capitulo = "todos"
       /\ respuesta'.resultados =
            IF porObjetos # {} THEN porObjetos
            ELSE IF porPersonajes # {} THEN porPersonajes
            ELSE porLugares]_vars

\* C10: when the primary query returns no event, the matched objects
\* reference some event id, and the matched characters and the matched
\* places have non-empty disjoint fallback sets, the next read is the one of
\* the objects' events, and the response carries the objects' set and no
\* event that only the characters' or the places' set holds.
C10_PrioridadObjetos ==
  [][(resultados' = {} /\ eventosDesdeObjetos # {}
        /\ porPersonajes # {} /\ porLugares # {}
        /\ porPersonajes \cap porLugares = {}) =>
       /\ (pc = "primaria" /\ falladas' = falladas /\ pc' # pc) =>
            pc' = "fbObjetos"
       /\ RespondeTrasPrimariaVacia =>
            /\ pc = "fbObjetos"
            /\ respuesta'.resultados = porObjetos
            /\ respuesta'.resultados
                 \cap ((porPersonajes \cup porLugares) \ porObjetos) = {}]_vars

\* A question that names a character, a place and an object was answered
\* with the object's event, the primary query having returned nothing and
\* the character and the place having events of their own.
C10_Testigo ==
  /\ pc = "respondida"
  /\ consulta = <<"Ú","r","s","u","l","a"," ","M","a","c","o","n","d","o"," ","e","s","p","e","j","o">>
  /\ "fbObjetos" \in lecturas
  /\ resultados = {}
  /\ porPersonajes = {1}
  /\ porLugares = {2}
  /\ respuesta = Exito("todos", 0, Nulo, {3})

\* The question of the README, src/README.md:59.
PreguntaBuendia == <<"¿","D","ó","n","d","e"," ","v","i","v","i","ó"," ","J","o","s","é"," ","A","r","c","a","d","i","o"," ","B","u","e","n","d","í","a","?">>

\* C11 as the specification states it: on the seed store, which holds the
\* character "José Arcadio Buendía" and an event that mentions him and
\* involves him, the answer to the question is computed with his id in the
\* combined filter, and comes from the character fallback when the filter
\* returns nothing.
C11_PersonajeEnFiltro ==
  (pc = "respondida" /\ consulta = PreguntaBuendia /\ escrituras = 0
     /\ falladas = {}) =>
    /\ 3 \in personajeIds
    /\ "primaria" \in lecturas
    /\ respuesta.capitulo = "todos"
    /\ (resultados = {} /\ porPersonajes # {}) =>
         ("fbPersonajes" \in lecturas /\ respuesta.resultados = porPersonajes)

\* C11: the event that mentions him shares two of the five words of the
\* question, so the ranker returns it and the answer is that event alone,
\* tagged "similar", with no id resolved and no filter or fallback query;
\* his id enters the filter only when the ranker returns nothing (its read
\* of the events failed), and the filter then returns the event.
C11_BuendiaSimilar ==
  (pc = "respondida" /\ consulta = PreguntaBuendia) =>
    /\ falladas = {} =>
         /\ respuesta = Exito("similar", 0, Nulo, {4})
         /\ personajeIds = {}
         /\ lecturas \cap LecturasTrasAnalisis = {}
    /\ (falladas = {"anFuzzy"} /\ escrituras = 0) =>
         /\ personajeIds = {3}
         /\ respuesta = Exito("todos", 0, Nulo, {4})
         /\ "fbPersonajes" \notin lecturas

\* The question was answered on the seed store, the analysis having matched
\* the character.
C11_Testigo ==
  /\ pc = "respondida"
  /\ consulta = PreguntaBuendia
  /\ escrituras = 0
  /\ falladas = {}
  /\ analisis.personajes = << <<"J","o","s","é"," ","A","r","c","a","d","i","o"," ","B","u","e","n","d","í","a">> >>
  /\ 3 \in eventosDB[4].personajes_involucrados
  /\ respuesta.capitulo = "similar"
  /\ respuesta.resultados = {4}

\* The clauses of the combined filter for the stored event i, each true when
\* its input is empty: a verb pattern matches the name or the description,
\* an involved character is a resolved id, the place is a resolved id, the
\* event is one the matched objects reference.
clausulaDeVerbos(i) ==
  \/ Len(analisis.regexVerbos) = 0
  \/ \E k \in 1..Len(analisis.regexVerbos) :
       \/ testPalabra(analisis.regexVerbos[k], eventosDB[i].nombre)
       \/ /\ eventosDB[i].descripcion # Indefinido
          /\ testPalabra(analisis.regexVerbos[k], eventosDB[i].descripcion)

clausulaDePersonajes(i) ==
  personajeIds = {} \/ eventosDB[i].personajes_involucrados \cap personajeIds # {}

clausulaDeLugares(i) ==
  lugarIds = {} \/ eventosDB[i].lugar_relacionado \in lugarIds

clausulaDeObjetos(i) ==
  eventosDesdeObjetos = {} \/ i \in eventosDesdeObjetos

\* C12: a primary query that returns gives exactly the stored events that
\* satisfy every clause whose input is non-empty, some input being non-empty;
\* and a non-empty result is sent at once, unchanged, tagged "todos", with no
\* fallback query.
C12_ConsultaPrimaria ==
  [][(pc = "primaria" /\ pc' # pc /\ falladas' = falladas) =>
       /\ \/ Len(analisis.regexVerbos) > 0 \/ personajeIds # {}
          \/ lugarIds # {} \/ eventosDesdeObjetos # {}
       /\ resultados' =
            {i \in Ids(eventosDB) :
               /\ clausulaDeVerbos(i) /\ clausulaDePersonajes(i)
               /\ clausulaDeLugares(i) /\ clausulaDeObjetos(i)}
       /\ resultados' # {} =>
            /\ pc' = "respondida"
            /\ respuesta' = Exito("todos", 0, Nulo, resultados')]_vars

\* A question with a verb and a place was answered by the primary query with
\* the one event that matches a pattern of the verb and is at the place.
C12_Testigo ==
  /\ pc = "respondida"
  /\ consulta = <<"¿","Q","u","i","é","n"," ","n","a","c","i","ó"," ","e","n"," ","M","a","c","o","n","d","o","?">>
  /\ Len(analisis.regexVerbos) > 0
  /\ lugarIds = {1}
  /\ lecturas \cap {"fbObjetos", "fbPersonajes", "fbLugares"} = {}
  /\ resultados = {4}
  /\ respuesta = Exito("todos", 0, Nulo, {4})
  /\ \E i \in Ids(eventosDB) : i # 4 /\ eventosDB[i].lugar_relacionado = 1

\* The reads of stored events the handler and the analysis can issue.
LecturasDeEventos ==
  {"atajoPopulate", "anFuzzy", "secPopulate", "fuzzyPopulate", "existScan",
   "existFinal", "primaria", "fbObjetos", "fbPersonajes", "fbLugares"}

\* The request in hand was answered with no read rejected, and is no chapter,
\* fuzzy or existence case, has no verb pattern and resolved no id.
SinVerboNiEntidad ==
  /\ pc = "respondida" /\ Analizada /\ falladas = {}
  /\ ~HayCapitulo(analisis.capitulo)
  /\ analisis.fuzzy = SinRef
  /\ ~EsVerdadero(analisis.terminoExistencia)
  /\ Len(analisis.regexVerbos) = 0
  /\ personajeIds = {} /\ lugarIds = {} /\ eventosDesdeObjetos = {}

\* C13 as the specification states it: in the zero-result case the response
\* is the empty success tagged "todos" and the request has issued no read of
\* the stored events.
C13_SinLecturaDeEventos ==
  SinVerboNiEntidad =>
    /\ respuesta = Exito("todos", 0, Nulo, {})
    /\ lecturas \cap LecturasDeEventos = {}

\* C13: in the zero-result case the response is the empty success tagged
\* "todos", and the one read of the stored events the request has issued is
\* the scan of the fuzzy ranker inside the analysis: no filter, scan or
\* fallback query follows the analysis.
C13_SinConsultaTrasAnalisis ==
  SinVerboNiEntidad =>
    /\ respuesta = Exito("todos", 0, Nulo, {})
    /\ lecturas \cap LecturasDeEventos = {"anFuzzy"}

\* "¿Qué pasó?" was answered without any query after the analysis.
C13_Testigo ==
  /\ SinVerboNiEntidad
  /\ consulta = <<"¿","Q","u","é"," ","p","a","s","ó","?">>
  /\ lecturas = {"anPersonajes", "anLugares", "anObjetos", "anFuzzy"}
  /\ respuesta.capitulo = "todos"
  /\ respuesta.resultados = {}

\* C14: a request during which a store read rejected is never answered with
\* anything but the generic internal error; in particular it is never
\* answered with a success computed as if the rejected read had returned
\* nothing.
C14_FallaNuncaTragada ==
  (pc = "respondida" /\ falladas # {}) =>
    respuesta = Fallo(500, "Error interno del servidor")

\* C15: the handler never ends without a response, whichever read rejects,
\* and a request that has ended has been sent exactly one response.
C15_UnaRespuesta ==
  /\ pc # "abandonada"
  /\ enviadas <= 1
  /\ pc = "respondida" => enviadas = 1

\* The request in hand carries no question: the parameter is missing, or
\* its text is empty or made of white space only.
SinPregunta ==
  \/ consulta = Indefinido
  \/ \A i \in 1..Len(consulta) : EsEspacio(consulta[i])

\* C16: a request without a question is answered at once with the
\* "parameter missing" error, status 400: no store read has been issued and
\* no analysis has been started for it.
C16_FaltaParametro ==
  (SinPregunta /\ pc # "reposo") =>
    /\ pc = "respondida"
    /\ respuesta = Fallo(400, "Falta parametro q")
    /\ enviadas = 1
    /\ lecturas = {}
    /\ analisis = AnalisisVacio

\* A question of two spaces was rejected after the store had been written.
C16_Testigo ==
  /\ consulta = <<" "," ">>
  /\ pc = "respondida"
  /\ respuesta.status = 400
  /\ lecturas = {}
  /\ escrituras > 0

\* The documented success shapes of a response r.
FormaDeExito(r) ==
  /\ r.status = 200 /\ r.error = ""
  /\ r.resultados \subseteq Ids(eventosDB)
  /\ \/ r.capitulo = "numero" /\ r.numero \in Nat /\ r.termino = Nulo
     \/ r.capitulo = "similar" /\ Cardinality(r.resultados) = 1 /\ r.termino = Nulo
     \/ r.capitulo = "existencia" /\ EsVerdadero(r.termino)
     \/ r.capitulo = "todos" /\ r.termino = Nulo

\* The documented errors, each with the one cause it has: no question, a
\* chapter number of the analysis that no stored chapter has, a rejected read.
FormaDeError(r) ==
  \/ r = Fallo(400, "Falta parametro q") /\ SinPregunta
  \/ /\ r = Fallo(404, "Capitulo no existe")
     /\ HayCapitulo(analisis.capitulo)
     /\ \A n \in analisis.capitulo : capitulosNumerados(n) = {}
  \/ r = Fallo(500, "Error interno del servidor") /\ falladas # {}

analisisSobre(P, L, O, E, q) ==
  [capitulo |-> capituloDe[q],
   terminoExistencia |-> existenciaDe[q],
   regexVerbos |-> regexVerbosDe[q],
   personajes |-> personajesDetectados(P, textoNormDe[q]),
   lugares |-> nombresDetectados(L, textoNormDe[q]),
   objetos |-> nombresDetectados(O, textoNormDe[q]),
   fuzzy |-> IF EsVerdadero(existenciaDe[q]) THEN SinRef
             ELSE buscarEventoSimilar(q, E)]

filtroSobre(P, L, O, E, an) ==
  LET pIds == idsPorNombre(P, an.personajes)
      lIds == idsPorNombre(L, an.lugares)
      eObj == eventosDeObjetos(O, an.objetos)
      r == consultaPrimaria(E, an.regexVerbos, pIds, lIds, eObj)
      fb == fallbackDe(r, eObj, pIds, lIds)
  IN IF EsVerdadero(an.terminoExistencia)
     THEN Exito("existencia", 0, terminoRespuesta(an.terminoExistencia),
                eventosCoincidentesDe(E, an.terminoExistencia))
     ELSE IF Len(an.regexVerbos) = 0 /\ pIds = {} /\ lIds = {} /\ eObj = {}
     THEN Exito("todos", 0, Nulo, {})
     ELSE IF fb = "fbObjetos" THEN Exito("todos", 0, Nulo, eventosPorId(E, eObj))
     ELSE IF fb = "fbPersonajes" THEN Exito("todos", 0, Nulo, eventosDePersonajes(E, pIds))
     ELSE IF fb = "fbLugares" THEN Exito("todos", 0, Nulo, eventosDeLugares(E, lIds))
     ELSE Exito("todos", 0, Nulo, r)

respuestaSobre(P, L, O, E, C, q) ==
  IF ~EsVerdadero(q) THEN Fallo(400, "Falta parametro q")
  ELSE IF matchCapDe[q] # Nulo
  THEN LET n == parseInt(matchCapDe[q])
           doc == capituloPorNumero(C, n)
       IN IF doc = {} THEN respuestaSinCapitulo(n)
          ELSE Exito("numero", n, Nulo,
                     eventosPorId(E, UNION {C[i].eventos : i \in doc}))
  ELSE LET an == analisisSobre(P, L, O, E, q)
           doc == UNION {capituloPorNumero(C, n) : n \in an.capitulo}
       IN IF HayCapitulo(an.capitulo)
          THEN IF doc = {} THEN respuestaCapituloInexistente
               ELSE Exito("numero", CHOOSE n \in an.capitulo : TRUE, Nulo,
                          eventosPorId(E, UNION {C[i].eventos : i \in doc}))
          ELSE IF an.fuzzy # SinRef /\ ~EsVerdadero(an.terminoExistencia)
          THEN Exito("similar", 0, Nulo, {an.fuzzy})
          ELSE filtroSobre(P, L, O, E, an)

\* The answers over the store the server started on and over the store as
\* it is now: while no more than one write has been served, the store has
\* been nothing but these two.
respuestasInstantaneas ==
  LET q == IF consulta = Indefinido THEN Indefinido ELSE qDe[consulta]
  IN {respuestaSobre(PersonajesIniciales, LugaresIniciales, ObjetosIniciales,
                     EventosIniciales, CapitulosIniciales, q),
      respuestaSobre(personajesDB, lugaresDB, objetosDB, eventosDB,
                     capitulosDB, q)}

\* C18: the response to a question, when no read of the request rejected,
\* is the response the handler gives over one snapshot of the store, whatever
\* write was served between the reads of the request.
C18_Instantanea ==
  (pc = "respondida" /\ falladas = {} /\ escrituras <= 1) =>
    respuesta \in respuestasInstantaneas

\* C19: no step of the question handler (a request received, a read
\* returned or rejected, a response sent) changes the stored characters,
\* places, objects, events or chapters.  The table of intents is a constant
\* of the module, as verbosClave is a constant the source only reads.
C19_SoloLectura ==
  [][(pc' # pc \/ lecturas' # lecturas \/ consulta' # consulta
        \/ respuesta' # respuesta \/ enviadas' # enviadas) =>
       almacen' = almacen]_vars

\* A question went through the analysis, the resolution, the filter and a
\* fallback, and the store is the one the server started on.
C19_Testigo ==
  /\ pc = "respondida"
  /\ consulta = <<"¿","Q","u","i","é","n"," ","n","a","c","i","ó"," ","e","n"," ","M","a","c","o","n","d","o","?">>
  /\ falladas = {}
  /\ "primaria" \in lecturas /\ "fbLugares" \in lecturas
  /\ almacen = <<PersonajesIniciales, LugaresIniciales, ObjetosIniciales,
                 EventosIniciales, CapitulosIniciales>>
  /\ enviadas = 1

\* The folded form f occurs in the folded text t as a whole word: no letter,
\* digit or underscore stands right before it or right after it.
palabraEntera(f, t) ==
  \E i \in 1..(Len(t) - Len(f) + 1) :
    /\ SubSeq(t, i, i + Len(f) - 1) = f
    /\ i = 1 \/ ~EsPalabra(t[i - 1])
    /\ i + Len(f) > Len(t) \/ ~EsPalabra(t[i + Len(f)])

\* The k-th intent of the table has a form that is a whole word of q folded.
intencionActiva(k, q) ==
  \E j \in 1..Len(verbosClave[k].formas) :
    palabraEntera(plegar(verbosClave[k].formas[j]), plegar(q))

activaTabla ==
  [k \in 1..Len(verbosClave), q \in Q |-> intencionActiva(k, q)]

\* The number of forms of the active intents among the first k.
RECURSIVE formasHasta(_, _)
formasHasta(k, q) ==
  IF k = 0 THEN 0
  ELSE formasHasta(k - 1, q)
         + (IF activaTabla[k, q] THEN Len(verbosClave[k].formas) ELSE 0)

\* The patterns the question q is to give: intent after intent in the order
\* of the table, the folded forms of each active intent, once each.
patronesEsperados(q) ==
  [i \in 1..formasHasta(Len(verbosClave), q) |->
     LET k == CHOOSE n \in 1..Len(verbosClave) :
                /\ activaTabla[n, q]
                /\ formasHasta(n - 1, q) < i
                /\ i <= formasHasta(n, q)
     IN plegar(verbosClave[k].formas[i - formasHasta(k - 1, q)])]

esperadosDe == [q \in Q |-> patronesEsperados(q)]

\* The verb scan of the analysis of the request in hand has been done.
VerbosDetectados ==
  /\ Analizada
  /\ "anObjetos" \in lecturas
  /\ "anObjetos" \notin falladas

\* C20: the patterns an analysis holds are, for each intent of the table in
\* order, one pattern per form of the intent when some form of it, folded, is
\* a whole word of the folded question, and none when no form is: an intent
\* with two forms in the question contributes its patterns once, and the
\* intents after an active one are scanned as well.
C20_IntencionesVerbales ==
  VerbosDetectados => analisis.regexVerbos = esperadosDe[qDe[consulta]]

\* "se murió" holds two forms of the intent "morir", "murió" and "se murió",
\* and got the eight patterns of the intent once.
C20_Testigo ==
  /\ VerbosDetectados
  /\ consulta = <<"s","e"," ","m","u","r","i","ó">>
  /\ Len(analisis.regexVerbos) = 8
  /\ analisis.regexVerbos[3] = <<"f","a","l","l","e","c","i","o">>
  /\ analisis.regexVerbos[8] = <<"s","e"," ","m","u","r","i","o">>

(***************************************************************************)
(* Properties of the analysis and of its text functions.                   *)
(***************************************************************************)
\* a is a substring of t.
subcadena(a, t) ==
  \E i \in 1..(Len(t) - Len(a) + 1) : SubSeq(t, i, i + Len(a) - 1) = a

\* The whitespace-delimited tokens of s: its maximal runs of characters
\* that are not white space.
fichas(s) ==
  {SubSeq(s, par[1], par[2]) : par \in
     {ij \in (1..Len(s)) \X (1..Len(s)) :
        /\ ij[1] <= ij[2]
        /\ \A k \in ij[1]..ij[2] : ~EsEspacio(s[k])
        /\ ij[1] = 1 \/ EsEspacio(s[ij[1] - 1])
        /\ ij[2] = Len(s) \/ EsEspacio(s[ij[2] + 1])}}

\* Some token of the folded text e is a substring of t.
fichaEn(e, t) == \E f \in fichas(e) : subcadena(f, t)

\* The normalized text of the question in hand.
textoNormalizado == textoNormDe[qDe[consulta]]

\* The analysis of the request in hand has read the three lists of names.
EntidadesDetectadas ==
  /\ consulta \in ConsultasDeLectura /\ EsVerdadero(qDe[consulta])
  /\ {"anPersonajes", "anLugares", "anObjetos"} \subseteq lecturas
  /\ falladas \cap {"anPersonajes", "anLugares", "anObjetos"} = {}

Reportados(lista) == {lista[k] : k \in 1..Len(lista)}

\* The rule of the specification for a name without alias.
reglaNombre(plegado, t) ==
  /\ plegado # <<>>
  /\ subcadena(plegado, t) \/ fichaEn(plegado, t)

\* C21 as the specification states it: a character is reported if and only
\* if its folded name is a substring of the normalized question, or its
\* folded alias is, or a token of its folded name is; a place or an object if
\* and only if its folded name or a token of it is.
C21_ReglaDeEntidades ==
  EntidadesDetectadas =>
    /\ \A i \in Ids(personajesDB) :
         LET ea == extraerAlias(personajesDB[i].nombre)
         IN trim(personajesDB[i].nombre) \in Reportados(analisis.personajes)
              <=> \/ reglaNombre(ea.nombre, textoNormalizado)
                  \/ EsVerdadero(ea.alias) /\ subcadena(ea.alias, textoNormalizado)
    /\ \A i \in Ids(lugaresDB) :
         lugaresDB[i].nombre \in Reportados(analisis.lugares)
           <=> reglaNombre(plegar(lugaresDB[i].nombre), textoNormalizado)
    /\ \A i \in Ids(objetosDB) :
         objetosDB[i].nombre \in Reportados(analisis.objetos)
           <=> reglaNombre(plegar(objetosDB[i].nombre), textoNormalizado)

\* The pieces String.prototype.split gives for s at its runs of white space:
\* its tokens, and the empty piece when s starts or ends with white space.
piezas(s) ==
  fichas(s) \cup
    (IF s = <<>> \/ EsEspacio(s[1]) \/ EsEspacio(s[Len(s)]) THEN {<<>>} ELSE {})

\* The rule of the code for a folded name or alias: neither it nor the
\* normalized question is empty, and it, or a piece of it, is a substring of
\* the question.
reglaPiezas(plegado, t) ==
  /\ plegado # <<>>
  /\ t # <<>>
  /\ subcadena(plegado, t) \/ \E f \in piezas(plegado) : subcadena(f, t)

\* C21: a character is reported if and only if its folded name, or a piece
\* of its folded name, or its folded alias, or a piece of its folded alias is
\* a substring of the normalized question; a place or an object if and only
\* if its folded name or a piece of it is.  The pieces are those of the split
\* at runs of white space, the empty piece of a name that starts or ends
\* with white space included, and the question is not empty.
C21_ReglaConFichasDeAlias ==
  EntidadesDetectadas =>
    /\ \A i \in Ids(personajesDB) :
         LET ea == extraerAlias(personajesDB[i].nombre)
         IN trim(personajesDB[i].nombre) \in Reportados(analisis.personajes)
              <=> \/ reglaPiezas(ea.nombre, textoNormalizado)
                  \/ EsVerdadero(ea.alias) /\ reglaPiezas(ea.alias, textoNormalizado)
    /\ \A i \in Ids(lugaresDB) :
         lugaresDB[i].nombre \in Reportados(analisis.lugares)
           <=> reglaPiezas(plegar(lugaresDB[i].nombre), textoNormalizado)
    /\ \A i \in Ids(objetosDB) :
         objetosDB[i].nombre \in Reportados(analisis.objetos)
           <=> reglaPiezas(plegar(objetosDB[i].nombre), textoNormalizado)

\* "gitano" is no substring of the name "melquiades" and the alias
\* "el gitano" is no substring of it, and the character was reported.
C21_Testigo ==
  /\ EntidadesDetectadas
  /\ consulta = <<"g","i","t","a","n","o">>
  /\ analisis.personajes = << <<"M","e","l","q","u","í","a","d","e","s"," ","(","e","l"," ","g","i","t","a","n","o",")">> >>
  /\ analisis.lugares = <<>>

\* The ranker of the analysis of the request in hand has read the events.
RankerHecho ==
  /\ consulta \in ConsultasDeLectura /\ EsVerdadero(qDe[consulta])
  /\ "anFuzzy" \in lecturas
  /\ "anFuzzy" \notin falladas

\* The text of the event e the ranker compares: name, a space and the
\* description, folded.
textoDeEvento(e) ==
  plegar(e.nombre \o <<" ">> \o
         (IF e.descripcion = Indefinido THEN <<>> ELSE e.descripcion))

\* The words the normalized question shares with the event e, and the words
\* of the question, at least 1: the score of e is their quotient.
compartidas(e) == Cardinality(fichas(textoNormalizado) \cap fichas(textoDeEvento(e)))

divisor == Maximo(Cardinality(fichas(textoNormalizado)), 1)

\* C22: the score of an event is the number of words of the question that
\* are words of the event's name and description, over the number of words of
\* the question (at least 1), words taken as sets; the ranker returns an
\* event if and only if the highest score is above 0.2, that is 5 times the
\* shared words exceed the divisor, and the event returned has the highest
\* score.
C22_UmbralDelRanker ==
  RankerHecho =>
    /\ analisis.fuzzy # SinRef <=>
         \E i \in Ids(eventosDB) : 5 * compartidas(eventosDB[i]) > divisor
    /\ analisis.fuzzy # SinRef =>
         /\ analisis.fuzzy \in Ids(eventosDB)
         /\ \A i \in Ids(eventosDB) :
              compartidas(eventosDB[i]) <= compartidas(eventosDB[analisis.fuzzy])

\* The stored events whose name is the text of the question in hand.
eventosDeEseNombre == {i \in Ids(eventosDB) : eventosDB[i].nombre = qDe[consulta]}

\* C23: when the text of the question is the name of a stored event, the
\* score the ranker computes for that event is 1 and the ranker returns that
\* event.
C23_NombreExacto ==
  RankerHecho =>
    \A i \in eventosDeEseNombre :
      /\ scoreDe(textoNormalizado, eventosDB[i]).num
           = scoreDe(textoNormalizado, eventosDB[i]).den
      /\ analisis.fuzzy = i

\* The text n has no parenthesis.
sinParentesis(n) == \A k \in 1..Len(n) : n[k] \notin {"(", ")"}

\* The ways to read n as "A (B)": the position of its " (" when A and B
\* have no parenthesis, B is not empty and n ends with ")".
lecturasAB(n) ==
  {a \in 2..(Len(n) - 3) :
     /\ n[a] = " " /\ n[a + 1] = "(" /\ n[Len(n)] = ")"
     /\ sinParentesis(SubSeq(n, 1, a - 1))
     /\ sinParentesis(SubSeq(n, a + 2, Len(n) - 1))}

\* The character names extraerAlias has been applied to: those the analysis
\* of the request in hand has read.
nombresTratados ==
  IF "anPersonajes" \in lecturas /\ "anPersonajes" \notin falladas
  THEN {personajesDB[i].nombre : i \in Ids(personajesDB)}
  ELSE {}

\* C24 as the specification states it: a name "A (B)" gives the name fold(A)
\* and the alias fold(B); a name without parenthetical gives the alias null
\* and the name fold(input).
C24_AliasYNombre ==
  \A n \in nombresTratados :
    /\ \A a \in lecturasAB(n) :
         /\ extraerAlias(n).nombre = plegar(SubSeq(n, 1, a - 1))
         /\ extraerAlias(n).alias = plegar(SubSeq(n, a + 2, Len(n) - 1))
    /\ sinParentesis(n) =>
         /\ extraerAlias(n).alias = Nulo
         /\ extraerAlias(n).nombre = plegar(n)

\* C24: a name "A (B)" gives the name fold(A) without the white space
\* around it and the alias fold(B); a name without parenthetical gives the
\* alias null and the name fold(input) without the white space around it.
C24_NombreRecortado ==
  \A n \in nombresTratados :
    /\ \A a \in lecturasAB(n) :
         /\ extraerAlias(n).nombre = trim(plegar(SubSeq(n, 1, a - 1)))
         /\ extraerAlias(n).alias = plegar(SubSeq(n, a + 2, Len(n) - 1))
    /\ sinParentesis(n) =>
         /\ extraerAlias(n).alias = Nulo
         /\ extraerAlias(n).nombre = trim(plegar(n))

\* The analysis has treated "Úrsula " and "Melquíades (el gitano)".
C24_Testigo ==
  /\ <<"Ú","r","s","u","l","a"," ">> \in nombresTratados
  /\ extraerAlias(<<"Ú","r","s","u","l","a"," ">>).nombre = <<"u","r","s","u","l","a">>
  /\ \E n \in nombresTratados :
       /\ lecturasAB(n) # {}
       /\ extraerAlias(n).nombre = <<"m","e","l","q","u","i","a","d","e","s">>
       /\ extraerAlias(n).alias = <<"e","l"," ","g","i","t","a","n","o">>

\* The texts of the state the handler folds: the question in hand, the
\* stored names and the stored descriptions.
textosDelEstado ==
  (IF consulta \in ConsultasDeLectura THEN {consulta, qDe[consulta]} ELSE {})
    \cup {personajesDB[i].nombre : i \in Ids(personajesDB)}
    \cup {lugaresDB[i].nombre : i \in Ids(lugaresDB)}
    \cup {objetosDB[i].nombre : i \in Ids(objetosDB)}
    \cup {eventosDB[i].nombre : i \in Ids(eventosDB)}
    \cup {eventosDB[i].descripcion : i \in Ids(eventosDB)}

\* C25: folding is idempotent: folding a folded text changes nothing.
C25_PlegadoIdempotente ==
  \A x \in textosDelEstado :
    limpiarTexto(limpiarTexto(x)) = limpiarTexto(x)

\* The analysis has folded a question with upper-case letters and several
\* accents, and folding changed it.
C25_Testigo ==
  /\ consulta = <<"¿","D","ó","n","d","e"," ","v","i","v","i","ó"," ","J","o","s","é"," ","A","r","c","a","d","i","o"," ","B","u","e","n","d","í","a","?">>
  /\ "anPersonajes" \in lecturas
  /\ limpiarTexto(consulta) # consulta
  /\ limpiarTexto(consulta) = <<"¿","d","o","n","d","e"," ","v","i","v","i","o"," ","j","o","s","e"," ","a","r","c","a","d","i","o"," ","b","u","e","n","d","i","a","?">>

\* The request in hand has been answered with no read rejected, its raw text
\* naming no chapter and its normalised text naming one.
SegundaDeteccion ==
  /\ pc = "respondida"
  /\ falladas = {}
  /\ consulta \in ConsultasDeLectura /\ EsVerdadero(qDe[consulta])
  /\ matchCapDe[qDe[consulta]] = Nulo
  /\ capituloDe[qDe[consulta]] # {}

\* The reads of the fuzzy, existence and filter steps.
LecturasTrasCapitulo == (LecturasTrasAnalisis \ {"secFindOne", "secPopulate"}) \cup {"fuzzyPopulate"}

\* C26: when the shortcut on the raw text did not fire and the analysis
\* carries a chapter number, the answer is the 404 "Capitulo no existe" when
\* the store holds no chapter of that number and otherwise the events of the
\* first such chapter tagged with the number, and no read of the fuzzy,
\* existence or filter steps is issued.
C26_SegundaDeteccion ==
  SegundaDeteccion =>
    \A n \in capituloDe[qDe[consulta]] :
      /\ capitulosNumerados(n) = {} =>
           respuesta = Fallo(404, "Capitulo no existe")
      /\ capitulosNumerados(n) # {} =>
           respuesta =
             Exito("numero", n, Nulo,
                   eventosPorId(eventosDB,
                     UNION {capitulosDB[i].eventos : i \in capituloPorNumero(capitulosDB, n)}))
      /\ lecturas \cap LecturasTrasCapitulo = {}

\* A letter of the alphabet, accented or not, a digit or the underscore.
esLetraODigito(c) ==
  \/ \E k \in 1..Len(Mayusculas) : Mayusculas[k] = c
  \/ \E k \in 1..Len(Minusculas) : Minusculas[k] = c
  \/ EsDigito(c) \/ c = "_"

\* The form f as written, letter case aside, stands in the text t as a
\* whole word: no letter or digit touches it.
formaEscrita(f, t) ==
  \E i \in 1..(Len(t) - Len(f) + 1) :
    /\ toLowerCase(SubSeq(t, i, i + Len(f) - 1)) = toLowerCase(f)
    /\ i = 1 \/ ~esLetraODigito(t[i - 1])
    /\ i + Len(f) > Len(t) \/ ~esLetraODigito(t[i + Len(f)])

\* The stored event i holds, in its name or its description, a form of the
\* k-th intent as the table writes it.
eventoConForma(i, k) ==
  \E j \in 1..Len(verbosClave[k].formas) :
    \/ formaEscrita(verbosClave[k].formas[j], eventosDB[i].nombre)
    \/ /\ eventosDB[i].descripcion # Indefinido
       /\ formaEscrita(verbosClave[k].formas[j], eventosDB[i].descripcion)

\* The primary query of the request in hand has returned, no read having
\* been rejected.
PrimariaHecha ==
  /\ consulta \in ConsultasDeLectura /\ EsVerdadero(qDe[consulta])
  /\ "primaria" \in lecturas
  /\ falladas = {}

\* C27: once the primary query has run for a question that triggers an
\* intent, every stored event whose name or description holds one of the
\* intent's forms as the table writes it, as a whole word, satisfies the verb
\* clause of the filter.
C27_VerboContraTexto ==
  PrimariaHecha =>
    \A k \in 1..Len(verbosClave) : \A i \in Ids(eventosDB) :
      (activaTabla[k, qDe[consulta]] /\ eventoConForma(i, k)) =>
        clausulaVerbos(eventosDB[i].nombre, eventosDB[i].descripcion,
                       analisis.regexVerbos)

\* The combined filter of the request in hand has no clause: no verb
\* pattern, no resolved character or place, no event of a matched object.
filtroVacio ==
  /\ Len(analisis.regexVerbos) = 0
  /\ personajeIds = {}
  /\ lugarIds = {}
  /\ eventosDesdeObjetos = {}

\* C28: the primary query is only issued with a clause in its filter, and a
\* response tagged "todos" of a request that detected nothing carries no
\* event.
C28_FiltroConClausula ==
  /\ (pc = "primaria" \/ "primaria" \in lecturas) => ~filtroVacio
  /\ (pc = "respondida" /\ respuesta.capitulo = "todos" /\ filtroVacio) =>
       respuesta.resultados = {}

\* The primary query is about to be issued with the verb clause alone.
C28_Testigo ==
  /\ pc = "primaria"
  /\ Len(analisis.regexVerbos) > 0
  /\ personajeIds = {}
  /\ lugarIds = {}
  /\ eventosDesdeObjetos = {}

\* C29: a character, a place or an object is reported only if a non-empty
\* token of its folded name, or of its folded alias, is a substring of the
\* normalized question.
C29_SinCoincidenciaVacia ==
  EntidadesDetectadas =>
    /\ \A i \in Ids(personajesDB) :
         LET ea == extraerAlias(personajesDB[i].nombre)
         IN trim(personajesDB[i].nombre) \in Reportados(analisis.personajes)
              => \/ fichaEn(ea.nombre, textoNormalizado)
                 \/ EsVerdadero(ea.alias) /\ fichaEn(ea.alias, textoNormalizado)
    /\ \A i \in Ids(lugaresDB) :
         lugaresDB[i].nombre \in Reportados(analisis.lugares)
           => fichaEn(plegar(lugaresDB[i].nombre), textoNormalizado)
    /\ \A i \in Ids(objetosDB) :
         objetosDB[i].nombre \in Reportados(analisis.objetos)
           => fichaEn(plegar(objetosDB[i].nombre), textoNormalizado)

\* The lookup at the await `etiqueta` of the request in hand has returned.
Resuelta(etiqueta) ==
  /\ EntidadesDetectadas
  /\ etiqueta \in lecturas
  /\ etiqueta \notin falladas

\* C30: on a store that is not written meanwhile, the exact-name lookups
\* give, for every stored character and place the analysis reported, the id
\* of that record, and for every stored object it reported, the event the
\* object references.
C30_PasadasDeAcuerdo ==
  /\ Resuelta("resPersonajes") =>
       \A i \in Ids(personajesDB) :
         trim(personajesDB[i].nombre) \in Reportados(analisis.personajes)
           => i \in personajeIds
  /\ Resuelta("resLugares") =>
       \A i \in Ids(lugaresDB) :
         lugaresDB[i].nombre \in Reportados(analisis.lugares)
           => i \in lugarIds
  /\ Resuelta("resObjetos") =>
       \A i \in Ids(objetosDB) :
         (objetosDB[i].nombre \in Reportados(analisis.objetos)
            /\ objetosDB[i].evento_relacionado # SinRef)
           => objetosDB[i].evento_relacionado \in eventosDesdeObjetos

====
